---- MODULE Spec2Model ----
(***************************************************************************)
(* outclaw: the local skill registry (SkillManager), its lock-file         *)
(* manifest and the install command, modelled over a small file system.    *)
(*                                                                         *)
(* A path is a sequence of segments.  The file system `fs` is a function  *)
(* from the paths that exist to their node (a directory, or a file with   *)
(* its data).  A skill name is the sequence of the '/'-separated segments *)
(* of the name string, which is what path.join makes of it.               *)
(***************************************************************************)
EXTENDS Integers, Sequences, FiniteSets, TLC

VARIABLES
  fs,         \* the file system: existing path -> node
  scope,      \* the scope the SkillManager was constructed with
  out,        \* outcome of the last call: [op, result]
  installed,  \* history: names installed by a completed installSkill and not uninstalled since
  procs,      \* the concurrent invocations (used by SpecRace only)
  cmd         \* the last install command: its specifier, the parsed source,
              \* the requests it sent and whether it warned

vars == <<fs, scope, out, installed, procs, cmd>>

----------------------------------------------------------------------------
(* Bounds *)

MaxTime == 1       \* number of distinct clock readings for installedAt
MaxSegments == 4   \* number of '/'-separated segments after a specifier's prefix

(* Program constants *)

MinDescription == 10   \* z.string().min(10, ...)
ManifestVersion == 1   \* { version: 1, skills: [] }
SearchLimit == 5       \* searchWorkflows(registryId, { limit: 5 })

----------------------------------------------------------------------------
(* Values *)

Undefined == "undefined"

Scopes == {"global", "project"}

\* one-segment names, all matching /^[a-z0-9-]+$/
SimpleNames == {<<"alpha">>, <<"beta">>}

\* a name with a '/' in it: its directory lies inside the directory of "alpha"
NestedName == <<"alpha", "nested">>

\* no name (a call without a name argument; a document without a name line)
NoName == <<>>

Doc(hname, desc) == [type |-> "doc", hname |-> hname, desc |-> desc]

\* primary documents: the header name and the length of the header's description
Docs ==
  {Doc(n, MinDescription) : n \in SimpleNames} \cup {Doc(<<"alpha">>, MinDescription - 1)}

Times == 1..MaxTime

RegistrySource(id) == [type |-> "registry", url |-> Undefined, ref |-> Undefined, id |-> id]
GithubSource(url, ref) == [type |-> "github", url |-> url, ref |-> ref, id |-> Undefined]

Sources == {RegistrySource("abc"), GithubSource("https://github.com/acme/widgets", Undefined)}

----------------------------------------------------------------------------
(* Paths and the file system *)

DirNode == [kind |-> "dir"]
FileNode(d) == [kind |-> "file", data |-> d]

IsPrefix(p, q) == Len(p) <= Len(q) /\ SubSeq(q, 1, Len(p)) = p
Prefixes(p) == {SubSeq(p, 1, i) : i \in 1..Len(p)}
Dirname(p) == SubSeq(p, 1, Len(p) - 1)

RECURSIVE Normalize(_, _)
Normalize(acc, rest) ==
  IF rest = <<>> THEN acc
  ELSE LET s == Head(rest) IN
       IF s = "." \/ s = "" THEN Normalize(acc, Tail(rest))
       ELSE IF s = ".."
            THEN Normalize(IF acc = <<>> THEN acc ELSE SubSeq(acc, 1, Len(acc) - 1), Tail(rest))
            ELSE Normalize(Append(acc, s), Tail(rest))

\* path.join(base, name)
PathJoin(base, name) == Normalize(<<>>, base \o name)

pathExists(f, p) == p \in DOMAIN f
IsDirectory(f, p) == p \in DOMAIN f /\ f[p].kind = "dir"
IsFile(f, p) == p \in DOMAIN f /\ f[p].kind = "file"

\* fs.mkdir(p, {recursive: true}): fails when a component of p is a file
ensureDirOk(f, p) == \A q \in Prefixes(p) : q \in DOMAIN f => f[q].kind = "dir"
ensureDir(f, p) ==
  [q \in DOMAIN f \cup Prefixes(p) |-> IF q \in DOMAIN f THEN f[q] ELSE DirNode]

\* fs.writeFile(p, d): needs the parent directory, and p must not be a directory
WriteFileOk(f, p) == IsDirectory(f, Dirname(p)) /\ ~IsDirectory(f, p)
WriteFile(f, p, d) == [q \in DOMAIN f \cup {p} |-> IF q = p THEN FileNode(d) ELSE f[q]]

\* fs.rm(p, {recursive: true, force: true})
RmRecursive(f, p) == [q \in {r \in DOMAIN f : ~IsPrefix(p, r)} |-> f[q]]

\* the paths strictly below p
Below(f, p) == {q \in DOMAIN f : IsPrefix(p, q) /\ q # p}

WorkspaceRoot == <<"workspace">>
Cwd == <<"cwd">>

getSkillsPathAsync(sc) ==
  IF sc = "global" THEN PathJoin(WorkspaceRoot, <<"skills">>) ELSE PathJoin(Cwd, <<"skills">>)

getLockFilePathAsync(sc) ==
  IF sc = "global" THEN PathJoin(WorkspaceRoot, <<"lock.json">>)
  ELSE PathJoin(Cwd, <<".outclaw", "lock.json">>)

getSkillPathAsync(name, sc) == PathJoin(getSkillsPathAsync(sc), name)

SkillMdPath(skillPath) == PathJoin(skillPath, <<"SKILL.md">>)

----------------------------------------------------------------------------
(* JSON, as far as the lock file needs it *)

\* JSON.stringify of an object drops the properties whose value is undefined
JsonObject(obj) == [k \in {j \in DOMAIN obj : obj[j] # Undefined} |-> obj[k]]

\* reading a property of a parsed object: a missing key reads as undefined
Get(obj, k) == IF k \in DOMAIN obj THEN obj[k] ELSE Undefined

JsonStringify(manifest) ==
  [type |-> "json",
   value |-> [manifest EXCEPT !.skills =
                [i \in 1..Len(manifest.skills) |->
                   [manifest.skills[i] EXCEPT !.source = JsonObject(@)]]]]

\* JSON.parse throws on text that is not JSON
JsonParseOk(data) == data.type = "json"
JsonParse(data) == data.value

----------------------------------------------------------------------------
(* Skill documents *)

LowercaseSegments == {"alpha", "beta"}

\* /^[a-z0-9-]+$/ on the name string: one segment (no '/'), lowercase letters
NameRegexOk(hname) == Len(hname) = 1 /\ hname[1] \in LowercaseSegments

\* SkillFrontmatterSchema.parse: the checks on name and description
SchemaOk(doc) == NameRegexOk(doc.hname) /\ doc.desc >= MinDescription

\* SkillParser.parse succeeds: SKILL.md is readable and its header validates
ParseOk(f, skillPath) ==
  /\ IsFile(f, SkillMdPath(skillPath))
  /\ f[SkillMdPath(skillPath)].data.type = "doc"
  /\ SchemaOk(f[SkillMdPath(skillPath)].data)

\* the Skill that SkillParser.parse returns, with the scope added by the manager
SkillInfoOf(f, skillPath, sc) ==
  [name |-> f[SkillMdPath(skillPath)].data.hname,
   desc |-> f[SkillMdPath(skillPath)].data.desc,
   path |-> skillPath,
   scope |-> sc]

\* generateSkillMd: the document text for a header
generateSkillMd(frontmatter) ==
  [type |-> "doc", hname |-> frontmatter.name, desc |-> frontmatter.description]

----------------------------------------------------------------------------
(* SkillManager *)

HiddenSegments == {".outclaw", ".git"}

Children(f, p) == {q \in DOMAIN f : Len(q) = Len(p) + 1 /\ IsPrefix(p, q)}

\* listSkills: the result as a set (readdir fixes no order), for a skills root
\* whose entries fs.stat can all inspect; inspectEntry is the loop body in general
listSkills(f, sc) ==
  LET basePath == getSkillsPathAsync(sc) IN
  IF ~IsDirectory(f, basePath) THEN {}
  ELSE {SkillInfoOf(f, q, sc) :
          q \in {d \in Children(f, basePath) :
                   /\ d[Len(d)] \notin HiddenSegments
                   /\ IsDirectory(f, d)
                   /\ ParseOk(f, d)}}

\* getSkill: {skill}, or {} for null
getSkill(f, sc, name) ==
  LET skillPath == getSkillPathAsync(name, sc) IN
  IF ParseOk(f, skillPath) THEN {SkillInfoOf(f, skillPath, sc)} ELSE {}

skillExists(f, sc, name) == pathExists(f, SkillMdPath(getSkillPathAsync(name, sc)))

EmptyManifest == [version |-> ManifestVersion, skills |-> <<>>]

getManifest(f, sc) ==
  LET manifestPath == getLockFilePathAsync(sc) IN
  IF IsFile(f, manifestPath) /\ JsonParseOk(f[manifestPath].data)
  THEN JsonParse(f[manifestPath].data)
  ELSE EmptyManifest

\* manifest.skills.findIndex((s) => s.name === name): 0 stands for -1
FindIndex(skills, name) ==
  IF \E i \in 1..Len(skills) : skills[i].name = name
  THEN CHOOSE i \in 1..Len(skills) :
         /\ skills[i].name = name
         /\ \A j \in 1..(i - 1) : skills[j].name # name
  ELSE 0

\* mutant: the source is not taken from the options
ManifestEntryLocalSource(name, source, sc, t) ==
  [name |-> name, version |-> "1.0.0", installedAt |-> t,
   source |-> [type |-> "local", url |-> Undefined, ref |-> Undefined, id |-> Undefined],
   scope |-> sc]

ManifestEntry(name, source, sc, t) ==
  [name |-> name, version |-> "1.0.0", installedAt |-> t, source |-> source, scope |-> sc]

\* mutant: the entry is always pushed
UpsertAlwaysAppend(manifest, entry) ==
  [manifest EXCEPT !.skills = Append(@, entry)]

\* mutant: an existing entry is removed and the new one pushed at the end
UpsertMoveToEnd(manifest, entry) ==
  [manifest EXCEPT !.skills = Append(SelectSeq(@, LAMBDA s : s.name # entry.name), entry)]

\* mutant: the skills list is replaced by the new entry alone
UpsertReplaceAll(manifest, entry) ==
  [manifest EXCEPT !.skills = <<entry>>]

\* updateManifest, the in-memory part: update or add the entry
Upsert(manifest, entry) ==
  LET index == FindIndex(manifest.skills, entry.name) IN
  [manifest EXCEPT !.skills =
     IF index >= 1 THEN [@ EXCEPT ![index] = entry] ELSE Append(@, entry)]

\* updateManifest, the write: ensureDir(dirname) then writeFile
WriteManifest(f, sc, manifest) ==
  LET manifestPath == getLockFilePathAsync(sc) IN
  IF ~ensureDirOk(f, Dirname(manifestPath)) THEN [ok |-> FALSE, fs |-> f]
  ELSE LET f1 == ensureDir(f, Dirname(manifestPath)) IN
       IF ~WriteFileOk(f1, manifestPath) THEN [ok |-> FALSE, fs |-> f1]
       ELSE [ok |-> TRUE, fs |-> WriteFile(f1, manifestPath, JsonStringify(manifest))]

\* manifest.skills.findIndex throws TypeError when the parsed manifest has no skills
updateManifest(f, sc, name, source, t) ==
  LET manifest == getManifest(f, sc) IN
  IF "skills" \notin DOMAIN manifest THEN [ok |-> FALSE, fs |-> f]
  ELSE WriteManifest(f, sc, Upsert(manifest, ManifestEntry(name, source, sc, t)))

\* mutant: the filter keeps nothing
removeFromManifestClear(f, sc, name) ==
  LET manifestPath == getLockFilePathAsync(sc) IN
  IF IsFile(f, manifestPath) /\ JsonParseOk(f[manifestPath].data)
  THEN LET manifest == JsonParse(f[manifestPath].data)
           filtered == [manifest EXCEPT !.skills = <<>>]
       IN IF WriteFileOk(f, manifestPath)
          THEN WriteFile(f, manifestPath, JsonStringify(filtered))
          ELSE f
  ELSE f

\* removeFromManifest: every failure is swallowed, that of manifest.skills.filter
\* on a manifest without skills included
removeFromManifest(f, sc, name) ==
  LET manifestPath == getLockFilePathAsync(sc) IN
  IF IsFile(f, manifestPath) /\ JsonParseOk(f[manifestPath].data)
     /\ "skills" \in DOMAIN JsonParse(f[manifestPath].data)
  THEN LET manifest == JsonParse(f[manifestPath].data)
           filtered == [manifest EXCEPT !.skills = SelectSeq(@, LAMBDA s : s.name # name)]
       IN IF WriteFileOk(f, manifestPath)
          THEN WriteFile(f, manifestPath, JsonStringify(filtered))
          ELSE f
  ELSE f

\* mutant: createSkill also records the skill in the manifest
createSkillRegistering(f, options) ==
  LET skillPath == getSkillPathAsync(options.name, options.scope) IN
  IF pathExists(f, skillPath) THEN [result |-> "Conflict", fs |-> f]
  ELSE IF ~ensureDirOk(f, skillPath) THEN [result |-> "Error", fs |-> f]
  ELSE LET f1 == ensureDir(f, skillPath)
           skillMdContent ==
             generateSkillMd([name |-> options.name, description |-> options.description])
       IN IF ~WriteFileOk(f1, SkillMdPath(skillPath)) THEN [result |-> "Error", fs |-> f1]
          ELSE [result |-> "ok",
                fs |-> updateManifest(WriteFile(f1, SkillMdPath(skillPath), skillMdContent),
                                      options.scope, options.name,
                                      [type |-> "local", url |-> Undefined, ref |-> Undefined,
                                       id |-> Undefined], 1).fs]

\* mutant: createSkill writes into a directory that is already there
createSkillOverwriting(f, options) ==
  LET skillPath == getSkillPathAsync(options.name, options.scope) IN
  IF ~ensureDirOk(f, skillPath) THEN [result |-> "Error", fs |-> f]
  ELSE LET f1 == ensureDir(f, skillPath)
           skillMdContent ==
             generateSkillMd([name |-> options.name, description |-> options.description])
       IN IF ~WriteFileOk(f1, SkillMdPath(skillPath)) THEN [result |-> "Error", fs |-> f1]
          ELSE [result |-> "ok", fs |-> WriteFile(f1, SkillMdPath(skillPath), skillMdContent)]

\* createSkill(options): the directory is looked up in options.scope
createSkill(f, options) ==
  LET skillPath == getSkillPathAsync(options.name, options.scope) IN
  IF pathExists(f, skillPath) THEN [result |-> "Conflict", fs |-> f]
  ELSE IF ~ensureDirOk(f, skillPath) THEN [result |-> "Error", fs |-> f]
  ELSE LET f1 == ensureDir(f, skillPath)
           skillMdContent ==
             generateSkillMd([name |-> options.name, description |-> options.description])
       IN IF ~WriteFileOk(f1, SkillMdPath(skillPath)) THEN [result |-> "Error", fs |-> f1]
          ELSE [result |-> "ok", fs |-> WriteFile(f1, SkillMdPath(skillPath), skillMdContent)]

\* installSkill after the conflict check: ensureDir, writeFile, updateManifest
WriteSkill(f, sc, name, skillMdContent, source, t) ==
  LET skillPath == getSkillPathAsync(name, sc) IN
  IF ~ensureDirOk(f, skillPath) THEN [result |-> "Error", fs |-> f]
  ELSE LET f1 == ensureDir(f, skillPath) IN
       IF ~WriteFileOk(f1, SkillMdPath(skillPath)) THEN [result |-> "Error", fs |-> f1]
       ELSE LET f2 == WriteFile(f1, SkillMdPath(skillPath), skillMdContent)
                r == updateManifest(f2, sc, name, source, t)
            IN [result |-> IF r.ok THEN "ok" ELSE "Error", fs |-> r.fs]

\* mutant: the conflict check is dropped
installSkillUnchecked(f, sc, name, skillMdContent, force, source, t) ==
  WriteSkill(f, sc, name, skillMdContent, source, t)

installSkill(f, sc, name, skillMdContent, force, source, t) ==
  IF ~force /\ pathExists(f, getSkillPathAsync(name, sc))
  THEN [result |-> "Conflict", fs |-> f]
  ELSE WriteSkill(f, sc, name, skillMdContent, source, t)

\* mutant: the manifest is left alone on uninstall
uninstallSkillKeepEntry(f, sc, name) ==
  LET skillPath == getSkillPathAsync(name, sc) IN
  IF ~pathExists(f, skillPath) THEN [result |-> "NotFound", fs |-> f]
  ELSE [result |-> "ok", fs |-> RmRecursive(f, skillPath)]

\* mutant: a failed uninstall still takes the entry out of the manifest
uninstallSkillCleaning(f, sc, name) ==
  LET skillPath == getSkillPathAsync(name, sc) IN
  IF ~pathExists(f, skillPath)
  THEN [result |-> "NotFound", fs |-> removeFromManifest(f, sc, name)]
  ELSE [result |-> "ok", fs |-> removeFromManifest(RmRecursive(f, skillPath), sc, name)]

uninstallSkill(f, sc, name) ==
  LET skillPath == getSkillPathAsync(name, sc) IN
  IF ~pathExists(f, skillPath) THEN [result |-> "NotFound", fs |-> f]
  ELSE [result |-> "ok", fs |-> removeFromManifest(RmRecursive(f, skillPath), sc, name)]

----------------------------------------------------------------------------
(* One SkillManager, its methods called one at a time *)

\* the entries of the manifest; none where what getManifest returns has no skills
Skills(f, sc) ==
  LET manifest == getManifest(f, sc) IN
  IF "skills" \in DOMAIN manifest THEN manifest.skills ELSE <<>>

Count(skills, name) == Cardinality({i \in 1..Len(skills) : skills[i].name = name})

\* outcome of a call: the method, its name argument, its result, and whether
\* the manifest held an entry for the name when the call began
Outcome(op, name, result, had) == [op |-> op, name |-> name, result |-> result, had |-> had]

HadEntry(name) == Count(Skills(fs, scope), name) >= 1

NoProcs == <<>>

\* no install command has run
NoCommand == [specifier |-> "", parsed |-> [type |-> "pending"], net |-> <<>>, warned |-> FALSE]

Init ==
  /\ fs = [p \in {Cwd} |-> DirNode]
  /\ scope \in Scopes
  /\ out = Outcome("new", NoName, "ok", FALSE)
  /\ installed = {}
  /\ procs = NoProcs
  /\ cmd = NoCommand

\* the read-only methods: their results are listSkills(fs, scope), getSkill(fs, scope, name),
\* skillExists(fs, scope, name) and getManifest(fs, scope); they write nothing
ListSkills == UNCHANGED vars

GetSkill(name) == UNCHANGED vars

SkillExists(name) == UNCHANGED vars

GetManifest == UNCHANGED vars

CreateSkill(options) ==
  LET r == createSkill(fs, options) IN
  /\ fs' = r.fs
  /\ out' = Outcome("createSkill", options.name, r.result, HadEntry(options.name))
  /\ UNCHANGED <<scope, installed, procs, cmd>>

InstallSkill(name, content, force, source, t) ==
  LET r == installSkill(fs, scope, name, content, force, source, t) IN
  /\ fs' = r.fs
  /\ out' = Outcome("installSkill", name, r.result, HadEntry(name))
  /\ installed' = IF r.result = "ok" THEN installed \cup {name} ELSE installed
  /\ UNCHANGED <<scope, procs, cmd>>

UninstallSkill(name) ==
  LET r == uninstallSkill(fs, scope, name) IN
  /\ fs' = r.fs
  /\ out' = Outcome("uninstallSkill", name, r.result, HadEntry(name))
  /\ installed' = IF r.result = "ok" THEN installed \ {name} ELSE installed
  /\ UNCHANGED <<scope, procs, cmd>>

CreateOptions(names) == [name : names, description : {MinDescription}, scope : Scopes]

Next ==
  \/ ListSkills
  \/ GetManifest
  \/ \E name \in SimpleNames : GetSkill(name)
  \/ \E name \in SimpleNames : SkillExists(name)
  \/ \E options \in CreateOptions(SimpleNames) : CreateSkill(options)
  \/ \E name \in SimpleNames, content \in Docs, force \in BOOLEAN, source \in Sources, t \in Times :
       InstallSkill(name, content, force, source, t)
  \/ \E name \in SimpleNames : UninstallSkill(name)

Spec == Init /\ [][Next]_vars

----------------------------------------------------------------------------
(* The same manager with a name that contains a '/' *)

NestedScenarioNames == {<<"alpha">>, NestedName}

NextNested ==
  \/ ListSkills
  \/ GetManifest
  \/ \E name \in NestedScenarioNames : GetSkill(name)
  \/ \E name \in NestedScenarioNames : SkillExists(name)
  \/ \E options \in CreateOptions(NestedScenarioNames) : CreateSkill(options)
  \/ \E name \in NestedScenarioNames, content \in Docs, force \in BOOLEAN,
        source \in Sources, t \in Times :
       InstallSkill(name, content, force, source, t)
  \/ \E name \in NestedScenarioNames : UninstallSkill(name)

SpecNested == Init /\ [][NextNested]_vars

----------------------------------------------------------------------------
(* The install and uninstall commands, one invocation at a time *)

\* documents a fetch can return: valid, invalid, and one without a name line
FetchDocs ==
  {Doc(<<"alpha">>, MinDescription), Doc(<<"alpha">>, MinDescription - 1),
   Doc(NoName, MinDescription)}

\* what the content is installed as: its name line, else the repo or title
FetchedName(content, fallback) ==
  IF content.hname # NoName THEN content.hname ELSE fallback

Request(type, loggedIn, fetchOk, content, global, force, yes, proceed) ==
  [type |-> type, loggedIn |-> loggedIn, fetchOk |-> fetchOk, content |-> content,
   fallback |-> <<"beta">>, global |-> global, force |-> force, yes |-> yes,
   proceed |-> proceed]

\* the invocations of installCommand: the parsed source type, the login state,
\* the outcome of the fetch, the options and the answer to the overwrite prompt
InstallRequests ==
  {Request(type, TRUE, TRUE, Doc(NoName, MinDescription), FALSE, FALSE, TRUE, TRUE) :
     type \in {"local", "url"}}
  \cup {Request("registry", FALSE, TRUE, Doc(NoName, MinDescription), FALSE, FALSE, TRUE, TRUE)}
  \cup {Request(type, TRUE, FALSE, Doc(NoName, MinDescription), FALSE, FALSE, TRUE, TRUE) :
          type \in {"github", "registry"}}
  \cup {Request(type, TRUE, TRUE, content, global, force, yp[1], yp[2]) :
          type \in {"github", "registry"}, content \in FetchDocs, global \in BOOLEAN,
          force \in BOOLEAN, yp \in {<<TRUE, TRUE>>, <<FALSE, TRUE>>, <<FALSE, FALSE>>}}

CommandScope(global) == IF global THEN "global" ELSE "project"

\* installCommand once name, content and skillSource are known: the overwrite
\* prompt, then installSkill
installFetched(f, name, content, skillSource, global, force, yes, proceed, t) ==
  LET sc == CommandScope(global) IN
  IF skillExists(f, sc, name) /\ ~force /\ ~yes /\ ~proceed
  THEN [result |-> "Cancelled", fs |-> f]
  ELSE installSkill(f, sc, name, content, force, skillSource, t)

\* installCommand: [result, fs]; every failure ends in process.exit(1)
installCommand(f, req, t) ==
  IF req.type \in {"local", "url"} THEN [result |-> "NotSupported", fs |-> f]
  ELSE IF req.type = "registry" /\ ~req.loggedIn THEN [result |-> "AuthRequired", fs |-> f]
  ELSE IF ~req.fetchOk THEN [result |-> "FetchFailed", fs |-> f]
  ELSE LET name == FetchedName(req.content, req.fallback)
           skillSource == IF req.type = "registry"
                          THEN RegistrySource("abc")
                          ELSE GithubSource("https://github.com/acme/widgets", Undefined)
       IN installFetched(f, name, req.content, skillSource, req.global, req.force,
                         req.yes, req.proceed, t)

\* uninstallCommand(name, options)
uninstallCommand(f, name, global, yes, proceed) ==
  LET sc == CommandScope(global) IN
  IF getSkill(f, sc, name) = {} THEN [result |-> "NotFound", fs |-> f]
  ELSE IF ~yes /\ ~proceed THEN [result |-> "Cancelled", fs |-> f]
  ELSE uninstallSkill(f, sc, name)

InitCli ==
  /\ fs = [p \in {Cwd} |-> DirNode]
  /\ scope = "project"
  /\ out = Outcome("new", NoName, "ok", FALSE)
  /\ installed = {}
  /\ procs = NoProcs
  /\ cmd = NoCommand

InstallCommand(req, t) ==
  LET r == installCommand(fs, req, t)
      name == FetchedName(req.content, req.fallback)
      sc == CommandScope(req.global)
  IN /\ fs' = r.fs
     /\ scope' = sc
     /\ out' = Outcome("installCommand", name, r.result, Count(Skills(fs, sc), name) >= 1)
     /\ UNCHANGED <<installed, procs, cmd>>

UninstallCommand(name, global, yes, proceed) ==
  LET r == uninstallCommand(fs, name, global, yes, proceed)
      sc == CommandScope(global)
  IN /\ fs' = r.fs
     /\ scope' = sc
     /\ out' = Outcome("uninstallCommand", name, r.result, Count(Skills(fs, sc), name) >= 1)
     /\ UNCHANGED <<installed, procs, cmd>>

NextCli ==
  \/ \E req \in InstallRequests, t \in Times : InstallCommand(req, t)
  \/ \E name \in SimpleNames, global \in BOOLEAN,
        yp \in {<<TRUE, TRUE>>, <<FALSE, TRUE>>, <<FALSE, FALSE>>} :
       UninstallCommand(name, global, yp[1], yp[2])

SpecCli == InitCli /\ [][NextCli]_vars

----------------------------------------------------------------------------
(* Two invocations installing into one scope, interleaved at their awaits *)

Pids == {1, 2}

IdleProc ==
  [pc |-> "idle", name |-> NoName, content |-> Doc(NoName, MinDescription), force |-> FALSE,
   source |-> RegistrySource("abc"), manifest |-> EmptyManifest, seen |-> {},
   result |-> "none"]

InitRace ==
  /\ fs = [p \in {Cwd} |-> DirNode]
  /\ scope \in Scopes
  /\ out = Outcome("new", NoName, "ok", FALSE)
  /\ installed = {}
  /\ procs = [p \in Pids |-> IdleProc]
  /\ cmd = NoCommand

Finish(p, result) == procs' = [procs EXCEPT ![p].pc = "done", ![p].result = result]

\* installSkill is called
Start(p, name, content, force, source) ==
  /\ procs[p].pc = "idle"
  /\ procs' = [procs EXCEPT ![p].pc = "check", ![p].name = name, ![p].content = content,
                            ![p].force = force, ![p].source = source]
  /\ UNCHANGED <<fs, scope, out, installed, cmd>>

\* if (!options.force && (await pathExists(skillPath))) throw
CheckExists(p) ==
  /\ procs[p].pc = "check"
  /\ IF ~procs[p].force /\ pathExists(fs, getSkillPathAsync(procs[p].name, scope))
     THEN Finish(p, "Conflict")
     ELSE procs' = [procs EXCEPT ![p].pc = "mkdir"]
  /\ UNCHANGED <<fs, scope, out, installed, cmd>>

\* await ensureDir(skillPath)
MakeSkillDir(p) ==
  LET skillPath == getSkillPathAsync(procs[p].name, scope) IN
  /\ procs[p].pc = "mkdir"
  /\ IF ensureDirOk(fs, skillPath)
     THEN fs' = ensureDir(fs, skillPath) /\ procs' = [procs EXCEPT ![p].pc = "write"]
     ELSE fs' = fs /\ Finish(p, "Error")
  /\ UNCHANGED <<scope, out, installed, cmd>>

\* await fs.writeFile(path.join(skillPath, 'SKILL.md'), skillMdContent)
WriteSkillMd(p) ==
  LET docPath == SkillMdPath(getSkillPathAsync(procs[p].name, scope)) IN
  /\ procs[p].pc = "write"
  /\ IF WriteFileOk(fs, docPath)
     THEN fs' = WriteFile(fs, docPath, procs[p].content)
          /\ procs' = [procs EXCEPT ![p].pc = "read"]
     ELSE fs' = fs /\ Finish(p, "Error")
  /\ UNCHANGED <<scope, out, installed, cmd>>

\* updateManifest: const manifest = await this.getManifest(); the entry is
\* built and put into the in-memory manifest.  `seen` remembers which
\* invocations had completed when the manifest was read.
ReadManifest(p, t) ==
  /\ procs[p].pc = "read"
  /\ procs' = [procs EXCEPT
       ![p].pc = "ensure",
       ![p].seen = {r \in Pids : procs[r].pc = "done" /\ procs[r].result = "ok"},
       ![p].manifest =
          Upsert(getManifest(fs, scope),
                 ManifestEntry(procs[p].name, procs[p].source, scope, t))]
  /\ UNCHANGED <<fs, scope, out, installed, cmd>>

\* updateManifest: await ensureDir(path.dirname(manifestPath))
EnsureManifestDir(p) ==
  LET dir == Dirname(getLockFilePathAsync(scope)) IN
  /\ procs[p].pc = "ensure"
  /\ IF ensureDirOk(fs, dir)
     THEN fs' = ensureDir(fs, dir) /\ procs' = [procs EXCEPT ![p].pc = "store"]
     ELSE fs' = fs /\ Finish(p, "Error")
  /\ UNCHANGED <<scope, out, installed, cmd>>

\* updateManifest: await fs.writeFile(manifestPath, JSON.stringify(manifest))
StoreManifest(p) ==
  LET manifestPath == getLockFilePathAsync(scope) IN
  /\ procs[p].pc = "store"
  /\ IF WriteFileOk(fs, manifestPath)
     THEN /\ fs' = WriteFile(fs, manifestPath, JsonStringify(procs[p].manifest))
          /\ Finish(p, "ok")
          /\ out' = Outcome("installSkill", procs[p].name, "ok", FALSE)
     ELSE fs' = fs /\ Finish(p, "Error") /\ out' = out
  /\ UNCHANGED <<scope, installed, cmd>>

RaceDocs == {Doc(n, MinDescription) : n \in SimpleNames}

NextRace ==
  \/ \E p \in Pids, name \in SimpleNames, content \in RaceDocs, force \in BOOLEAN,
        source \in Sources :
       Start(p, name, content, force, source)
  \/ \E p \in Pids : CheckExists(p)
  \/ \E p \in Pids : MakeSkillDir(p)
  \/ \E p \in Pids : WriteSkillMd(p)
  \/ \E p \in Pids, t \in Times : ReadManifest(p, t)
  \/ \E p \in Pids : EnsureManifestDir(p)
  \/ \E p \in Pids : StoreManifest(p)

SpecRace == InitRace /\ [][NextRace]_vars

----------------------------------------------------------------------------
(* Properties of the manager *)

ManifestNames(f, sc) == {Skills(f, sc)[i].name : i \in 1..Len(Skills(f, sc))}

\* the entry a successful installSkill leaves in the lock file
StoredEntry(name, source, sc, t) ==
  [name |-> name, version |-> "1.0.0", installedAt |-> t,
   source |-> JsonObject(source), scope |-> sc]

\* the lock file as it is on disk
ManifestNode(f, sc) ==
  IF pathExists(f, getLockFilePathAsync(sc)) THEN f[getLockFilePathAsync(sc)]
  ELSE [kind |-> "none"]

\* C1: from an empty scope, after any sequence of installSkill, createSkill and
\* uninstallSkill calls the manifest holds at most one entry per skill name.
OneEntryPerName ==
  \A name \in SimpleNames : Count(Skills(fs, scope), name) <= 1

\* C1 witness: an installSkill of a name that already had an entry has succeeded
ReinstalledOnce ==
  /\ out.op = "installSkill" /\ out.result = "ok" /\ out.had
  /\ Count(Skills(fs, scope), out.name) = 1

\* C2: installSkill without force on a name whose target exists fails with Conflict
\* and changes nothing: the document and the manifest stay as they were, and after
\* such a failed second install the name still has exactly one entry.
ConflictLeavesRegistry ==
  /\ \A name \in SimpleNames, content \in Docs, source \in Sources, t \in Times :
       pathExists(fs, getSkillPathAsync(name, scope)) =>
         installSkill(fs, scope, name, content, FALSE, source, t)
           = [result |-> "Conflict", fs |-> fs]
  /\ (out.op = "installSkill" /\ out.result = "Conflict" /\ out.had) =>
       Count(Skills(fs, scope), out.name) = 1

\* C2 witness: a second install of an installed name has failed with Conflict
SecondInstallRefused ==
  /\ out.op = "installSkill" /\ out.result = "Conflict" /\ out.had
  /\ pathExists(fs, SkillMdPath(getSkillPathAsync(out.name, scope)))
  /\ Count(Skills(fs, scope), out.name) = 1

\* C3: installSkill with force on an existing skill leaves in the skill directory
\* the newly given primary document and no file that was there before the call.
ForceReplacesDirectory ==
  [][ \A name \in NestedScenarioNames, content \in Docs, source \in Sources, t \in Times :
        LET skillPath == getSkillPathAsync(name, scope) IN
        ( /\ skillExists(fs, scope, name)
          /\ InstallSkill(name, content, TRUE, source, t)
          /\ out'.result = "ok" ) =>
          /\ IsFile(fs', SkillMdPath(skillPath))
          /\ fs'[SkillMdPath(skillPath)].data = content
          /\ \A q \in Below(fs, skillPath) :
               q # SkillMdPath(skillPath) => ~pathExists(fs', q) ]_vars

\* C4: a successful installSkill of a name that has an entry replaces that entry
\* at its position, the name keeps one entry and every other entry keeps its content
\* and place; for a name without an entry the new entry is appended to the others.
UpsertInPlace ==
  \A name \in SimpleNames, content \in Docs, force \in BOOLEAN, source \in Sources,
     t \in Times :
    LET r == installSkill(fs, scope, name, content, force, source, t)
        before == Skills(fs, scope)
        after == Skills(r.fs, scope)
        new == StoredEntry(name, source, scope, t)
    IN r.result = "ok" =>
         IF Count(before, name) >= 1
         THEN /\ Len(after) = Len(before)
              /\ Count(after, name) = 1
              /\ \A i \in 1..Len(before) :
                   after[i] = IF before[i].name = name THEN new ELSE before[i]
         ELSE after = Append(before, new)

\* C4 witness: an entry that is not the last one has been replaced
ReplacedBeforeOthers ==
  /\ out.op = "installSkill" /\ out.result = "ok" /\ out.had
  /\ Len(Skills(fs, scope)) >= 2
  /\ Skills(fs, scope)[1].name = out.name

\* C5: uninstallSkill of a name whose directory exists removes the directory and
\* the entry of that name and leaves the other entries as they are; of a name whose
\* directory does not exist it fails with NotFound.
UninstallRemovesBoth ==
  \A name \in SimpleNames :
    LET skillPath == getSkillPathAsync(name, scope)
        r == uninstallSkill(fs, scope, name)
        before == Skills(fs, scope)
        after == Skills(r.fs, scope)
    IN IF pathExists(fs, skillPath)
       THEN /\ r.result = "ok"
            /\ ~pathExists(r.fs, skillPath)
            /\ ~skillExists(r.fs, scope, name)
            /\ Count(after, name) = 0
            /\ after = SelectSeq(before, LAMBDA s : s.name # name)
       ELSE r.result = "NotFound" /\ r.fs = fs

\* C5 witness: an installed skill has been uninstalled and another entry remains
UninstalledOneOfTwo ==
  /\ out.op = "uninstallSkill" /\ out.result = "ok" /\ out.had
  /\ ~pathExists(fs, getSkillPathAsync(out.name, scope))
  /\ Count(Skills(fs, scope), out.name) = 0
  /\ Len(Skills(fs, scope)) >= 1

ManifestIsInstalledSet ==
  ManifestNames(fs, scope) = installed

\* C9 witness: a skill was uninstalled while another installed one stays recorded
UninstallKeptOthers ==
  /\ out.op = "uninstallSkill" /\ out.result = "ok" /\ out.had
  /\ installed # {}
  /\ out.name \notin installed

\* C10: the manifest file changes only in a step that is a successful installSkill
\* or a successful uninstallSkill.
ManifestWrittenOnlyByInstallUninstall ==
  [][ (\E sc \in Scopes : ManifestNode(fs', sc) # ManifestNode(fs, sc)) =>
        (out'.op \in {"installSkill", "uninstallSkill"} /\ out'.result = "ok") ]_vars

\* C10 witness: createSkill has succeeded next to a manifest that holds entries
CreatedBesideManifest ==
  /\ out.op = "createSkill" /\ out.result = "ok"
  /\ Len(Skills(fs, scope)) >= 1
  /\ out.name \notin ManifestNames(fs, scope)

----------------------------------------------------------------------------
(* Properties of the install command *)

\* C7: in the install pipeline fetched content whose header fails the schema is
\* rejected with ValidationError before it is persisted: nothing on disk changes.
InvalidContentRejected ==
  [][ \A req \in InstallRequests, t \in Times :
        ( /\ req.type \in {"github", "registry"} /\ req.loggedIn /\ req.fetchOk
          /\ ~SchemaOk(req.content)
          /\ InstallCommand(req, t) ) =>
          (out'.result = "ValidationError" /\ fs' = fs) ]_vars

----------------------------------------------------------------------------
(* Properties of two racing installs *)

EntryNames(manifest) == {manifest.skills[i].name : i \in 1..Len(manifest.skills)}

BothInstalled(p, q) ==
  /\ p # q
  /\ procs[p].pc = "done" /\ procs[q].pc = "done"
  /\ procs[p].name # procs[q].name

\* C8: two invocations that install distinct names into one scope both finish
\* without an error and leave both documents on disk; an entry is missing from
\* the manifest exactly through the other's stale rewrite: the other invocation
\* read the manifest before this one had stored its entry, and wrote after it.
RaceLosesOnlyByStaleRewrite ==
  \A p, q \in Pids :
    BothInstalled(p, q) =>
      /\ procs[p].result = "ok" /\ procs[q].result = "ok"
      /\ IsFile(fs, SkillMdPath(getSkillPathAsync(procs[p].name, scope)))
      /\ fs[SkillMdPath(getSkillPathAsync(procs[p].name, scope))].data = procs[p].content
      /\ procs[q].name \in ManifestNames(fs, scope) \/ procs[p].name \in ManifestNames(fs, scope)
      /\ (procs[p].name \notin ManifestNames(fs, scope) =>
            (p \notin procs[q].seen /\ procs[q].name \in ManifestNames(fs, scope)))
      /\ (p \in procs[q].seen => procs[p].name \in ManifestNames(fs, scope))

\* C8 witness: both installs are done without error, both skill directories are
\* on disk, and the manifest holds the second writer's entry alone
LostUpdate ==
  \E p, q \in Pids :
    /\ BothInstalled(p, q)
    /\ procs[p].result = "ok" /\ procs[q].result = "ok"
    /\ IsFile(fs, SkillMdPath(getSkillPathAsync(procs[p].name, scope)))
    /\ IsFile(fs, SkillMdPath(getSkillPathAsync(procs[q].name, scope)))
    /\ ManifestNames(fs, scope) = {procs[q].name}

----------------------------------------------------------------------------
(* Strings.  A string is a TLA+ string; the operators below are the         *)
(* JavaScript string and array methods the commands use.  The text          *)
(* "undefined" stands for the value undefined and is never an input.        *)

CharAt(s, i) == SubSeq(s, i, i)

startsWith(s, p) == Len(s) >= Len(p) /\ SubSeq(s, 1, Len(p)) = p

endsWith(s, p) == Len(s) >= Len(p) /\ SubSeq(s, Len(s) - Len(p) + 1, Len(s)) = p

includes(s, p) == \E i \in 1..(Len(s) - Len(p) + 1) : SubSeq(s, i, i + Len(p) - 1) = p

\* s.slice(n), n >= 0
slice(s, n) == SubSeq(s, n + 1, Len(s))

\* position of the first occurrence of the character c, 0 when there is none
IndexOf(s, c) ==
  IF \E i \in 1..Len(s) : CharAt(s, i) = c
  THEN CHOOSE i \in 1..Len(s) : CharAt(s, i) = c /\ \A j \in 1..(i - 1) : CharAt(s, j) # c
  ELSE 0

\* position of the last occurrence of the character c, 0 when there is none
LastIndexOf(s, c) ==
  IF \E i \in 1..Len(s) : CharAt(s, i) = c
  THEN CHOOSE i \in 1..Len(s) : CharAt(s, i) = c /\ \A j \in (i + 1)..Len(s) : CharAt(s, j) # c
  ELSE 0

\* s.split(c) for a one-character separator
RECURSIVE split(_, _)
split(s, c) ==
  LET i == IndexOf(s, c) IN
  IF i = 0 THEN <<s>> ELSE <<SubSeq(s, 1, i - 1)>> \o split(SubSeq(s, i + 1, Len(s)), c)

\* parts.join(sep)
RECURSIVE join(_, _)
join(parts, sep) ==
  IF parts = <<>> THEN ""
  ELSE IF Len(parts) = 1 THEN parts[1]
  ELSE parts[1] \o sep \o join(Tail(parts), sep)

\* parts[i] with JavaScript's indices: undefined past the end
At(parts, i) == IF i + 1 <= Len(parts) THEN parts[i + 1] ELSE Undefined

\* parts.slice(n)
sliceFrom(parts, n) == SubSeq(parts, n + 1, Len(parts))

Truthy(v) == v # Undefined /\ v # ""

\* a || b
OrElse(a, b) == IF Truthy(a) THEN a ELSE b

UpperLetters == "ABCDEFGHIJKLMNOPQRSTUVWXYZ"
LowerLetters == "abcdefghijklmnopqrstuvwxyz"

\* the lower-case letter of each upper-case letter
LowerOf ==
  [c \in {CharAt(UpperLetters, i) : i \in 1..Len(UpperLetters)} |->
     CharAt(LowerLetters, IndexOf(UpperLetters, c))]

LowerChar(c) == IF c \in DOMAIN LowerOf THEN LowerOf[c] ELSE c

RECURSIVE toLowerCase(_)
toLowerCase(s) == IF s = "" THEN "" ELSE LowerChar(CharAt(s, 1)) \o toLowerCase(slice(s, 1))

HexDigits == "0123456789abcdefABCDEF"
HexChars == {CharAt(HexDigits, i) : i \in 1..Len(HexDigits)}

\* UUID_PATTERN.test(s): 8-4-4-4-12 hex digits, either letter case
UUID_PATTERN(s) ==
  /\ Len(s) = 36
  /\ \A i \in 1..36 :
       IF i \in {9, 14, 19, 24} THEN CharAt(s, i) = "-" ELSE CharAt(s, i) \in HexChars

----------------------------------------------------------------------------
(* new URL(specifier), for the specifiers considered: the only schemes are  *)
(* http and https, no '?', '#', '\', ':' or '%' follows the scheme and no    *)
(* path segment is '.' or '..'                                               *)

\* the text after the scheme and the slashes that follow it
AfterScheme(s) ==
  LET rest == IF startsWith(s, "https:") THEN slice(s, 6) ELSE slice(s, 5)
      n == IF \E i \in 1..Len(rest) : CharAt(rest, i) # "/"
           THEN (CHOOSE i \in 1..Len(rest) :
                   CharAt(rest, i) # "/" /\ \A j \in 1..(i - 1) : CharAt(rest, j) = "/") - 1
           ELSE Len(rest)
  IN slice(rest, n)

\* [ok, pathname]: a string without a scheme is not a URL (there is no base);
\* an http(s) URL needs a host, which is what follows the last '@' of the authority
UrlParse(s) ==
  IF ~(startsWith(s, "http:") \/ startsWith(s, "https:")) THEN [ok |-> FALSE, pathname |-> ""]
  ELSE LET rest == AfterScheme(s)
           i == IndexOf(rest, "/")
           authority == IF i = 0 THEN rest ELSE SubSeq(rest, 1, i - 1)
           host == slice(authority, LastIndexOf(authority, "@"))
       IN IF host = "" THEN [ok |-> FALSE, pathname |-> ""]
          ELSE [ok |-> TRUE, pathname |-> IF i = 0 THEN "/" ELSE slice(rest, i - 1)]

----------------------------------------------------------------------------
(* parseSkillSpecifier *)

\* the result of a call that threw
Thrown(error) == [type |-> error]

GithubParsed(owner, repo, ref, skillPath) ==
  [type |-> "github", owner |-> owner, repo |-> repo, ref |-> ref,
   skillPath |-> IF Truthy(skillPath) THEN skillPath ELSE Undefined]

\* mutant: the repo segment is not split at '@'
parseGithubShorthandKeepRef(specifier) ==
  LET rest == slice(specifier, 7)
      pathParts == Tail(split(rest, "/"))
  IN GithubParsed(Head(split(rest, "/")), OrElse(At(pathParts, 0), ""), Undefined,
                  join(sliceFrom(pathParts, 1), "/"))

\* github:owner/repo[@ref][/path]
parseGithubShorthand(specifier) ==
  LET rest == slice(specifier, 7)
      ownerRepo == Head(split(rest, "/"))
      pathParts == Tail(split(rest, "/"))
      owner == IF includes(ownerRepo, "/") THEN At(split(ownerRepo, "/"), 0) ELSE ownerRepo
      repoWithRef == IF includes(ownerRepo, "/")
                     THEN join(sliceFrom(split(ownerRepo, "/"), 1), "/")
                     ELSE At(pathParts, 0)
      repo0 == OrElse(repoWithRef, OrElse(At(pathParts, 0), ""))
      hasRef == includes(repo0, "@")
      repo == IF hasRef THEN At(split(repo0, "@"), 0) ELSE repo0
      ref == IF hasRef THEN At(split(repo0, "@"), 1) ELSE Undefined
      skillPath == join(sliceFrom(pathParts, 1), "/")
  IN GithubParsed(owner, repo, ref, skillPath)

\* a specifier that contains github.com
parseGithubUrl(specifier) ==
  LET url == UrlParse(specifier) IN
  IF ~url.ok THEN Thrown("TypeError")
  ELSE LET parts == split(slice(url.pathname, 1), "/")
           owner == At(parts, 0)
           repo1 == At(parts, 1)
           repo == IF repo1 # Undefined /\ endsWith(repo1, ".git")
                   THEN SubSeq(repo1, 1, Len(repo1) - 4) ELSE repo1
           ref == IF At(parts, 2) = "tree" /\ Truthy(At(parts, 3)) THEN At(parts, 3)
                  ELSE Undefined
           skillPath == join(sliceFrom(parts, 4), "/")
       IN GithubParsed(owner, repo, ref, skillPath)

\* owner/repo[@ref]
parseOwnerRepo(specifier) ==
  LET owner == At(split(specifier, "/"), 0)
      repoWithRef == At(split(specifier, "/"), 1)
      hasRef == repoWithRef # Undefined /\ includes(repoWithRef, "@")
      repo == IF hasRef THEN At(split(repoWithRef, "@"), 0) ELSE repoWithRef
      ref == IF hasRef THEN At(split(repoWithRef, "@"), 1) ELSE Undefined
  IN [type |-> "github", owner |-> owner, repo |-> repo, ref |-> ref]

\* mutant: the generic URL rule is tried before the host token rule
parseSkillSpecifierUrlFirst(specifier) ==
  IF startsWith(specifier, "github:") THEN parseGithubShorthand(specifier)
  ELSE IF startsWith(specifier, "http://") \/ startsWith(specifier, "https://")
       THEN [type |-> "url", url |-> specifier]
  ELSE IF includes(specifier, "github.com") THEN parseGithubUrl(specifier)
  ELSE IF startsWith(specifier, "./") \/ startsWith(specifier, "/")
          \/ startsWith(specifier, "../")
       THEN [type |-> "local", localPath |-> specifier]
  ELSE IF includes(specifier, "/") THEN parseOwnerRepo(specifier)
  ELSE [type |-> "registry", registryId |-> specifier]

\* mutant: the registry id is folded to lower case
parseSkillSpecifierFolding(specifier) ==
  IF startsWith(specifier, "github:") THEN parseGithubShorthand(specifier)
  ELSE IF includes(specifier, "github.com") THEN parseGithubUrl(specifier)
  ELSE IF startsWith(specifier, "http://") \/ startsWith(specifier, "https://")
       THEN [type |-> "url", url |-> specifier]
  ELSE IF startsWith(specifier, "./") \/ startsWith(specifier, "/")
          \/ startsWith(specifier, "../")
       THEN [type |-> "local", localPath |-> specifier]
  ELSE IF includes(specifier, "/") THEN parseOwnerRepo(specifier)
  ELSE [type |-> "registry", registryId |-> toLowerCase(specifier)]

parseSkillSpecifier(specifier) ==
  IF startsWith(specifier, "github:") THEN parseGithubShorthand(specifier)
  ELSE IF includes(specifier, "github.com") THEN parseGithubUrl(specifier)
  ELSE IF startsWith(specifier, "http://") \/ startsWith(specifier, "https://")
       THEN [type |-> "url", url |-> specifier]
  ELSE IF startsWith(specifier, "./") \/ startsWith(specifier, "/")
          \/ startsWith(specifier, "../")
       THEN [type |-> "local", localPath |-> specifier]
  ELSE IF includes(specifier, "/") THEN parseOwnerRepo(specifier)
  ELSE IF UUID_PATTERN(specifier) THEN [type |-> "registry", registryId |-> specifier]
  ELSE [type |-> "registry", registryId |-> specifier]

----------------------------------------------------------------------------
(* parseSkillSpecifier applied to one specifier *)

UuidLower == "123e4567-e89b-42d3-a456-426614174000"
UuidUpper == "123E4567-E89B-42D3-A456-426614174000"

SpecifierPrefixes == {"", "github:", "https://", "http://", "./", "../"}

Words == {"acme", "kit", "v2"}

\* what stands between two '/': nothing, a word, repo@ref, the host token,
\* a repository with the .git suffix, the literal tree, a UUID
Segments == {"", "acme", "kit", "kit@v2", "github.com", "kit.git", "tree", UuidLower}

SegmentLists == UNION {[1..n -> Segments] : n \in 0..MaxSegments}

Specifiers ==
  {p \o join(segs, "/") : p \in SpecifierPrefixes, segs \in SegmentLists} \cup {UuidUpper}

Pending == [type |-> "pending"]

InitParse ==
  /\ fs = [p \in {Cwd} |-> DirNode]
  /\ scope = "project"
  /\ out = Outcome("new", NoName, "ok", FALSE)
  /\ installed = {}
  /\ procs = NoProcs
  /\ cmd \in {[NoCommand EXCEPT !.specifier = s] : s \in Specifiers}

ParseSkillSpecifier ==
  /\ cmd.parsed = Pending
  /\ cmd' = [cmd EXCEPT !.parsed = parseSkillSpecifier(cmd.specifier)]
  /\ UNCHANGED <<fs, scope, out, installed, procs>>

NextParse == ParseSkillSpecifier

SpecParse == InitParse /\ [][NextParse]_vars

----------------------------------------------------------------------------
(* The resolver's contract: the ordered rules and their variants *)

\* the predicates of the seven rules, in order
RuleHolds(k, s) ==
  CASE k = 1 -> startsWith(s, "github:")
    [] k = 2 -> includes(s, "github.com")
    [] k = 3 -> startsWith(s, "http://") \/ startsWith(s, "https://")
    [] k = 4 -> startsWith(s, "./") \/ startsWith(s, "/") \/ startsWith(s, "../")
    [] k = 5 -> includes(s, "/")
    [] k = 6 -> UUID_PATTERN(s)
    [] OTHER -> TRUE

LowestRule(s) == CHOOSE k \in 1..7 : RuleHolds(k, s) /\ \A j \in 1..(k - 1) : ~RuleHolds(j, s)

\* what rule k alone makes of the specifier
RuleResult(k, s) ==
  CASE k = 1 -> parseGithubShorthand(s)
    [] k = 2 -> parseGithubUrl(s)
    [] k = 3 -> [type |-> "url", url |-> s]
    [] k = 4 -> [type |-> "local", localPath |-> s]
    [] k = 5 -> parseOwnerRepo(s)
    [] OTHER -> [type |-> "registry", registryId |-> s]

RuleVariant(k) ==
  CASE k \in {1, 2, 5} -> "github"
    [] k = 3 -> "url"
    [] k = 4 -> "local"
    [] OTHER -> "registry"

Variants == {"github", "url", "local", "registry"}

\* C11: parseSkillSpecifier is total: whatever the specifier, the call returns
\* one of the four variants and never throws.
ParseIsTotal == cmd.parsed # Pending => cmd.parsed.type \in Variants

\* C12: first match wins: a returned variant is the one of the lowest-numbered
\* rule whose predicate holds, with the fields that rule alone gives it, whichever
\* later rules match too; a call that does not return stopped in rule 2, being
\* the lowest rule that matched.
FirstMatchWins ==
  cmd.parsed # Pending =>
    LET k == LowestRule(cmd.specifier) IN
    /\ cmd.parsed.type \in Variants =>
         cmd.parsed.type = RuleVariant(k) /\ cmd.parsed = RuleResult(k, cmd.specifier)
    /\ cmd.parsed.type \notin Variants => k = 2

\* C12 witness: an https URL with the host token was parsed as hosted-ref, not url
HostedUrlNotGeneric ==
  /\ startsWith(cmd.specifier, "https://")
  /\ includes(cmd.specifier, "github.com")
  /\ cmd.parsed.type = "github"

\* github:O/R[@REF][/S1/.../Sn]
HostedForm(owner, repo, ref, subs) ==
  "github:" \o owner \o "/" \o repo \o (IF ref = Undefined THEN "" ELSE "@" \o ref)
    \o (IF subs = <<>> THEN "" ELSE "/" \o join(subs, "/"))

HostedOwners == {"acme", "github.com"}
HostedRepos == {"kit", "tree", "kit.git"}
HostedRefs == {Undefined, "v2"}
HostedSubpaths == UNION {[1..n -> {"acme", "kit"}] : n \in 0..2}

\* C13: github:O/R, github:O/R@REF, github:O/R/S1/.../Sn and github:O/R@REF/S1/.../Sn
\* parse to the hosted-ref variant with owner O, repo R, ref REF or unset, and
\* subpath S1/.../Sn or unset.
HostedFormParsed ==
  (cmd.parsed # Pending /\ startsWith(cmd.specifier, "github:")) =>
    \A owner \in HostedOwners, repo \in HostedRepos, ref \in HostedRefs,
       subs \in HostedSubpaths :
      cmd.specifier = HostedForm(owner, repo, ref, subs) =>
        cmd.parsed = [type |-> "github", owner |-> owner, repo |-> repo, ref |-> ref,
                      skillPath |-> IF subs = <<>> THEN Undefined ELSE join(subs, "/")]

\* C13 witness: github:acme/kit@v2/acme/kit was parsed, ref and subpath set
HostedWithRefAndSubpath ==
  /\ cmd.specifier = HostedForm("acme", "kit", "v2", <<"acme", "kit">>)
  /\ cmd.parsed.type = "github"
  /\ cmd.parsed.ref = "v2"
  /\ cmd.parsed.skillPath = "acme/kit"

\* C14: a UUID-shaped specifier, in either letter case, parses to the registry
\* variant with the specifier verbatim as id, and so does every specifier that
\* matches none of the rules 1 to 5.
RegistryIdVerbatim ==
  (cmd.parsed # Pending
     /\ (UUID_PATTERN(cmd.specifier) \/ \A k \in 1..5 : ~RuleHolds(k, cmd.specifier))) =>
    cmd.parsed = [type |-> "registry", registryId |-> cmd.specifier]

\* C14 witness: the upper-case UUID was parsed and kept its case
UpperCaseUuidKept ==
  /\ cmd.specifier = UuidUpper
  /\ UUID_PATTERN(cmd.specifier)
  /\ cmd.parsed.type = "registry"
  /\ cmd.parsed.registryId = UuidUpper

----------------------------------------------------------------------------
(* installCommand from the specifier on: the credential, the parse, the     *)
(* fetch with the requests it sends, then the install                        *)

\* getApiKey: the environment variable takes precedence over the config file
getApiKey(env, config) ==
  IF Truthy(Get(env, "OUTCLAW_API_KEY")) THEN env.OUTCLAW_API_KEY
  ELSE Get(config, "api_key")

\* mutant: the registry is asked without a look at the credential
isLoggedInAlways(env, config) == TRUE

isLoggedIn(env, config) == Truthy(getApiKey(env, config))

NoBody == Doc(NoName, 0)

Response(status, body) == [status |-> status, body |-> body]

\* a skill name as path.join takes it: the '/'-separated segments of the string
NameOf(str) == split(str, "/")

\* the name line of the content, else the fallback
NameFrom(content, fallback) ==
  IF content.hname # NoName THEN content.hname
  ELSE IF fallback = Undefined THEN Undefined ELSE NameOf(fallback)

\* fetchFromGitHub(source), the response to its one request given
fetchFromGitHub(source, response) ==
  LET owner == Get(source, "owner")
      repo == Get(source, "repo")
      ref == IF Get(source, "ref") = Undefined THEN "main" ELSE source.ref
      skillPath == IF Get(source, "skillPath") = Undefined THEN "" ELSE source.skillPath
      basePath == IF Truthy(skillPath) THEN skillPath \o "/" ELSE ""
      skillMdUrl == "https://raw.githubusercontent.com/" \o owner \o "/" \o repo \o "/"
                      \o ref \o "/" \o basePath \o "SKILL.md"
      net == <<[op |-> "fetch", url |-> skillMdUrl]>>
  IN IF response.status # 200
     THEN [error |-> IF response.status = 404 THEN "NotFound" ELSE "Transport",
           net |-> net, warned |-> FALSE]
     ELSE [error |-> "none", net |-> net, warned |-> FALSE,
           name |-> NameFrom(response.body, repo), content |-> response.body]

Workflow(id, title, slug) == [id |-> id, title |-> title, slug |-> slug]

\* results.workflows.find(...): the first exact match, as a set of at most one
ExactMatch(workflows, registryId) ==
  LET matches(w) == toLowerCase(w.title) = toLowerCase(registryId) \/ w.slug = registryId
      found == SelectSeq(workflows, matches)
  IN IF found = <<>> THEN {} ELSE {Head(found)}

\* fetchFromRegistry(client, registryId); registry gives the answers of the
\* server: the search results, the download and the workflow record
fetchFromRegistry(registryId, registry) ==
  IF UUID_PATTERN(registryId)
  THEN LET download == <<[op |-> "downloadWorkflow", id |-> registryId]>>
           detail == <<[op |-> "getWorkflow", id |-> registryId]>>
       IN IF registry.download.status # 200
          THEN [error |-> "ApiError", net |-> download, warned |-> FALSE]
          ELSE IF registry.detail.status # 200
          THEN [error |-> "ApiError", net |-> download \o detail, warned |-> FALSE]
          ELSE [error |-> "none", net |-> download \o detail, warned |-> FALSE,
                name |-> NameFrom(registry.download.body, registry.detail.title),
                content |-> registry.download.body, workflowId |-> registryId]
  ELSE LET search == <<[op |-> "searchWorkflows", search |-> registryId,
                        limit |-> SearchLimit]>>
       IN IF registry.search.status # 200
          THEN [error |-> "ApiError", net |-> search, warned |-> FALSE]
          ELSE IF Len(registry.search.workflows) = 0
          THEN [error |-> "NotFound", net |-> search, warned |-> FALSE]
          ELSE LET exactMatch == ExactMatch(registry.search.workflows, registryId)
                   workflow == IF exactMatch # {} THEN CHOOSE w \in exactMatch : TRUE
                               ELSE registry.search.workflows[1]
                   warned == exactMatch = {} /\ Len(registry.search.workflows) > 1
                   net == search \o <<[op |-> "downloadWorkflow", id |-> workflow.id]>>
               IN IF registry.download.status # 200
                  THEN [error |-> "ApiError", net |-> net, warned |-> warned]
                  ELSE [error |-> "none", net |-> net, warned |-> warned,
                        name |-> NameFrom(registry.download.body, workflow.title),
                        content |-> registry.download.body, workflowId |-> workflow.id]

\* mutant: the default branch is filled in when the source is recorded
RecordedRefDefaulted(source) == IF Get(source, "ref") = Undefined THEN "main" ELSE source.ref

\* the ref installCommand records: source.ref
RecordedRef(source) == Get(source, "ref")

\* mutant: a local or url specifier falls through to the GitHub fetch
NotImplementedNone(source) == FALSE

\* the variants installCommand refuses
NotImplemented(source) == source.type = "local" \/ source.type = "url"

\* installCommand stops: the failure is reported and the process exits
Stopped(source, result, net, warned) ==
  [result |-> result, parsed |-> source, net |-> net, warned |-> warned]

\* the outcome of the fetch r, with the source to record for it
Fetched(source, r, skillSource) ==
  IF r.error # "none" THEN Stopped(source, r.error, r.net, r.warned)
  ELSE IF r.name = Undefined THEN Stopped(source, "Failed", r.net, r.warned)
  ELSE [result |-> "fetched", parsed |-> source, net |-> r.net, warned |-> r.warned,
        name |-> r.name, content |-> r.content, skillSource |-> skillSource]

FetchedFromRegistry(source, r) ==
  Fetched(source, r, RegistrySource(IF r.error = "none" THEN r.workflowId ELSE Undefined))

\* installCommand from the parsed source up to the fetch: [result, parsed, net,
\* warned] and, when result is "fetched", name, content and skillSource
fetchParsed(source, world) ==
  IF source.type \notin Variants THEN Stopped(source, "Failed", <<>>, FALSE)
  ELSE IF NotImplemented(source) THEN Stopped(source, "NotSupported", <<>>, FALSE)
  ELSE IF source.type = "registry"
  THEN IF ~isLoggedIn(world.env, world.config)
       THEN Stopped(source, "AuthRequired", <<>>, FALSE)
       ELSE FetchedFromRegistry(source, fetchFromRegistry(source.registryId, world.registry))
  ELSE Fetched(source, fetchFromGitHub(source, world.github),
               GithubSource("https://github.com/" \o Get(source, "owner") \o "/"
                              \o Get(source, "repo"),
                            RecordedRef(source)))

resolveAndFetch(specifier, world) == fetchParsed(parseSkillSpecifier(specifier), world)

\* the command's outcome after installSkill returned or threw r
Installed(p, r) ==
  [result |-> r.result, fs |-> r.fs, parsed |-> p.parsed, net |-> p.net,
   warned |-> p.warned, name |-> p.name]

\* the end of installCommand: [result, fs, parsed, net, warned, name]
installResolved(f, p, options, t) ==
  IF p.result # "fetched"
  THEN [result |-> p.result, fs |-> f, parsed |-> p.parsed, net |-> p.net,
        warned |-> p.warned, name |-> NoName]
  ELSE Installed(p, installFetched(f, p.name, p.content, p.skillSource, options.global,
                                   options.force, options.yes, options.proceed, t))

\* installCommand(specifier, options) in a world: [result, fs, parsed, net, warned, name]
runInstallCommand(f, specifier, world, options, t) ==
  installResolved(f, resolveAndFetch(specifier, world), options, t)

----------------------------------------------------------------------------
(* Install commands run one after another, each in a world that answers it *)

NoEnv == <<>>
KeyEnvs == {NoEnv, [OUTCLAW_API_KEY |-> ""], [OUTCLAW_API_KEY |-> "key"]}

\* loadConfig gives {} when there is no config file
NoConfig == <<>>
Configs == {NoConfig, [api_key |-> ""], [api_key |-> "key"]}

NamedDoc == Doc(<<"alpha">>, MinDescription)

GithubResponses ==
  {Response(200, NamedDoc), Response(200, Doc(NoName, MinDescription)),
   Response(404, NoBody), Response(500, NoBody)}

WorkflowOther == Workflow("id-other", "Other", "other")
WorkflowAnother == Workflow("id-another", "Another", "another")
WorkflowTitled == Workflow("id-titled", "Lint", "lint-tool")
WorkflowSlugged == Workflow("id-slugged", "Linter", "lint")

SearchResults ==
  {<<>>, <<WorkflowOther>>, <<WorkflowOther, WorkflowAnother>>,
   <<WorkflowOther, WorkflowTitled>>, <<WorkflowOther, WorkflowSlugged>>}

Registry(workflows, downloadStatus) ==
  [search |-> [status |-> 200, workflows |-> workflows],
   download |-> Response(downloadStatus, IF downloadStatus = 200 THEN NamedDoc ELSE NoBody),
   detail |-> [status |-> 200, title |-> "Lint"]]

World(env, config, github, registry) ==
  [env |-> env, config |-> config, github |-> github, registry |-> registry]

DefaultRegistry == Registry(<<WorkflowOther>>, 200)
DefaultGithub == Response(200, NamedDoc)

\* every credential
CredentialWorlds ==
  {World(env, config, DefaultGithub, DefaultRegistry) : env \in KeyEnvs, config \in Configs}

\* every answer of the host, to a user who is logged in through the config file
GithubWorlds ==
  {World(NoEnv, [api_key |-> "key"], github, DefaultRegistry) : github \in GithubResponses}

\* every answer of the registry, to a user who is logged in through the environment
RegistryWorlds ==
  {World([OUTCLAW_API_KEY |-> "key"], NoConfig, DefaultGithub, Registry(workflows, status)) :
     workflows \in SearchResults, status \in {200, 401}}

HostedSpecifiers ==
  {"github:acme/kit", "acme/kit@v2", "https://github.com/acme/kit.git",
   "https://github.com/acme/kit/tree/v2"}

\* the command lines and the worlds they run in: <<specifier, world>>
InstallCases ==
  (HostedSpecifiers \X GithubWorlds)
  \cup ({"lint", UuidLower} \X CredentialWorlds)
  \cup ({"lint", "Lint", UuidLower} \X RegistryWorlds)
  \cup ({"github.com/acme/kit", "https://example.com/kit", "./local/kit"}
          \X {World(NoEnv, NoConfig, DefaultGithub, DefaultRegistry),
              World([OUTCLAW_API_KEY |-> "key"], NoConfig, DefaultGithub, DefaultRegistry)})

InstallOptions == [global : {FALSE}, force : BOOLEAN, yes : {TRUE}, proceed : {TRUE}]

InitInstall ==
  /\ fs = [p \in {Cwd} |-> DirNode]
  /\ scope = "project"
  /\ out = Outcome("new", NoName, "ok", FALSE)
  /\ installed = {}
  /\ procs = NoProcs
  /\ cmd = NoCommand

\* the effect of a finished command on the state
CommandDone(r, specifier, sc) ==
  /\ fs' = r.fs
  /\ scope' = sc
  /\ out' = Outcome("installCommand", r.name, r.result, Count(Skills(fs, sc), r.name) >= 1)
  /\ cmd' = [specifier |-> specifier, parsed |-> r.parsed, net |-> r.net,
             warned |-> r.warned]
  /\ UNCHANGED <<installed, procs>>

RunInstallCommand(specifier, world, options, t) ==
  CommandDone(runInstallCommand(fs, specifier, world, options, t), specifier,
              CommandScope(options.global))

NextInstall ==
  \E case \in InstallCases, options \in InstallOptions, t \in Times :
    RunInstallCommand(case[1], case[2], options, t)

SpecInstall == InitInstall /\ [][NextInstall]_vars

----------------------------------------------------------------------------
(* Properties of the install command, from the specifier to the manifest *)

\* the specifier names no ref: no '@', and for a URL no tree/<ref> segments
NoRefGiven(s) == ~includes(s, "@") /\ (LowestRule(s) = 2 => ~includes(s, "/tree/"))

\* the manifest entry the last command left for the name it installed, as a set
RecordedEntry ==
  {Skills(fs, scope)[i] : i \in {j \in 1..Len(Skills(fs, scope)) :
                                   Skills(fs, scope)[j].name = out.name}}

\* C15: a hosted-ref specifier that gives no ref is parsed with ref unset; the
\* default branch appears only in the raw-content URL that fetchFromGitHub
\* requests, and the source recorded in the manifest for the install has no ref.
AbsentRefDefaultsAtFetch ==
  (cmd.parsed.type = "github" /\ NoRefGiven(cmd.specifier)) =>
    /\ cmd.parsed.ref = Undefined
    /\ cmd.net # <<>> =>
         startsWith(cmd.net[1].url,
                    "https://raw.githubusercontent.com/" \o cmd.parsed.owner \o "/"
                      \o cmd.parsed.repo \o "/main/")
    /\ out.result = "ok" =>
         \A entry \in RecordedEntry :
           entry.source = [type |-> "github",
                           url |-> "https://github.com/" \o cmd.parsed.owner \o "/"
                                     \o cmd.parsed.repo]

\* C15 witness: github:acme/kit was fetched from the main branch and installed,
\* and its manifest entry carries a source without a ref
InstalledFromDefaultBranch ==
  /\ cmd.specifier = "github:acme/kit"
  /\ out.result = "ok"
  /\ cmd.net = <<[op |-> "fetch",
                  url |-> "https://raw.githubusercontent.com/acme/kit/main/SKILL.md"]>>
  /\ \E entry \in RecordedEntry : "ref" \notin DOMAIN entry.source

\* what the claim C16 calls a match: title or slug equal to the term, case aside
MatchesIgnoringCase(w, term) ==
  toLowerCase(w.title) = toLowerCase(term) \/ toLowerCase(w.slug) = toLowerCase(term)

HasCredential(world) ==
  Truthy(Get(world.env, "OUTCLAW_API_KEY")) \/ Truthy(Get(world.config, "api_key"))

\* C16: for a registry id that is not UUID-shaped the command searches with the
\* fixed cap; without results it fails with NotFound; it downloads a result
\* whose title or slug equals the term case-insensitively when there is one,
\* else the first result, warning exactly when there are several results and
\* none matches; the id downloaded is the id recorded as the source.
SearchPicksMatchOrFirst ==
  [][ \A case \in InstallCases :
        LET term == case[1]
            workflows == case[2].registry.search.workflows
            matching == {i \in 1..Len(workflows) : MatchesIgnoringCase(workflows[i], term)}
        IN ( /\ cmd'.specifier = term
             /\ \A k \in 1..5 : ~RuleHolds(k, term)
             /\ ~UUID_PATTERN(term)
             /\ HasCredential(case[2])
             /\ case[2].registry.download.status = 200
             /\ \E options \in InstallOptions, t \in Times :
                  RunInstallCommand(term, case[2], options, t) ) =>
             /\ cmd'.net[1] = [op |-> "searchWorkflows", search |-> term, limit |-> SearchLimit]
             /\ Len(workflows) = 0 => (out'.result = "NotFound" /\ Len(cmd'.net) = 1)
             /\ Len(workflows) > 0 =>
                  /\ Len(cmd'.net) = 2
                  /\ cmd'.net[2].op = "downloadWorkflow"
                  /\ matching # {} => cmd'.net[2].id \in {workflows[i].id : i \in matching}
                  /\ matching = {} => cmd'.net[2].id = workflows[1].id
                  /\ cmd'.warned <=> (matching = {} /\ Len(workflows) > 1) ]_vars

\* C17: an install whose specifier resolves to the url or local variant ends
\* with NotSupported, sends no request and leaves the file system as it was.
UnsupportedFailsFast ==
  [][ \A case \in InstallCases :
        ( /\ cmd'.specifier = case[1]
          /\ parseSkillSpecifier(case[1]).type \in {"url", "local"}
          /\ \E options \in InstallOptions, t \in Times :
               RunInstallCommand(case[1], case[2], options, t) ) =>
          (out'.result = "NotSupported" /\ cmd'.net = <<>> /\ fs' = fs) ]_vars

\* C17 witness: a url specifier was refused after an install had filled the
\* manifest; no request was sent
UnsupportedAfterInstall ==
  /\ out.result = "NotSupported"
  /\ cmd.parsed.type = "url"
  /\ cmd.net = <<>>
  /\ Skills(fs, scope) # <<>>

\* C18: an install whose specifier resolves to the registry variant, run with
\* no API key in the environment or the config, ends with AuthRequired, sends
\* no search or download request and leaves the file system as it was.
RegistryNeedsCredential ==
  [][ \A case \in InstallCases :
        ( /\ cmd'.specifier = case[1]
          /\ \A k \in 1..5 : ~RuleHolds(k, case[1])
          /\ ~HasCredential(case[2])
          /\ \E options \in InstallOptions, t \in Times :
               RunInstallCommand(case[1], case[2], options, t) ) =>
          (out'.result = "AuthRequired" /\ cmd'.net = <<>> /\ fs' = fs) ]_vars

\* C18 witness: a registry install was refused for want of a credential after
\* an earlier install had filled the manifest; no request was sent
RefusedWithoutCredential ==
  /\ out.result = "AuthRequired"
  /\ cmd.parsed.type = "registry"
  /\ cmd.net = <<>>
  /\ Skills(fs, scope) # <<>>

----------------------------------------------------------------------------
(* Properties of createSkill *)

\* C20: createSkill fails with Conflict when the target directory exists and then
\* leaves the directory as it was; when it succeeds the directory and its
\* SKILL.md exist; in both cases the manifest of neither scope is created or changed.
CreateConflictsOrCreates ==
  [][ \A options \in CreateOptions(SimpleNames) :
        LET skillPath == getSkillPathAsync(options.name, options.scope) IN
        CreateSkill(options) =>
          /\ pathExists(fs, skillPath) => (out'.result = "Conflict" /\ fs' = fs)
          /\ out'.result = "ok" =>
               /\ ~pathExists(fs, skillPath)
               /\ pathExists(fs', skillPath) /\ fs'[skillPath].kind = "dir"
               /\ pathExists(fs', SkillMdPath(skillPath))
               /\ fs'[SkillMdPath(skillPath)].kind = "file"
          /\ \A sc \in Scopes : ManifestNode(fs', sc) = ManifestNode(fs, sc) ]_vars

\* C20 witness: createSkill was refused for a skill that is installed, its
\* document and manifest entry still in place
CreateRefusedOverInstalled ==
  /\ out.op = "createSkill" /\ out.result = "Conflict"
  /\ out.name \in ManifestNames(fs, scope)
  /\ skillExists(fs, scope, out.name)

----------------------------------------------------------------------------
(* The manager started on a lock file that something else has written *)

\* text that JSON.parse rejects
NotJson == [type |-> "text"]

\* JSON text that is not a manifest: {"version": 1}, {"skills": []} and
\* {"version": 2, "skills": []}
JsonText(value) == [type |-> "json", value |-> value]
ForeignJson ==
  {JsonText([version |-> ManifestVersion]), JsonText([skills |-> <<>>]),
   JsonText([version |-> ManifestVersion + 1, skills |-> <<>>])}

\* what the lock file may hold before the manager starts
LockContents == {NotJson, JsonStringify(EmptyManifest)} \cup ForeignJson

WithLockFile(sc, data) ==
  WriteFile(ensureDir([p \in {Cwd} |-> DirNode], Dirname(getLockFilePathAsync(sc))),
            getLockFilePathAsync(sc), data)

InitLock ==
  /\ scope \in Scopes
  /\ fs \in {[p \in {Cwd} |-> DirNode]} \cup {WithLockFile(scope, data) : data \in LockContents}
  /\ out = Outcome("new", NoName, "ok", FALSE)
  /\ installed = {}
  /\ procs = NoProcs
  /\ cmd = NoCommand

NextLock ==
  \/ GetManifest
  \/ \E name \in SimpleNames, force \in BOOLEAN, source \in Sources, t \in Times :
       InstallSkill(name, Doc(name, MinDescription), force, source, t)
  \/ \E name \in SimpleNames : UninstallSkill(name)

SpecLock == InitLock /\ [][NextLock]_vars

\* C19: getManifest never propagates an error; for an absent or unparsable lock
\* file it returns the empty manifest; and whatever the lock file holds, the
\* value it returns has version 1 and a skills list.
GetManifestWellFormed ==
  LET manifestPath == getLockFilePathAsync(scope)
      manifest == getManifest(fs, scope)
  IN /\ (~IsFile(fs, manifestPath) \/ ~JsonParseOk(fs[manifestPath].data)) =>
          manifest = EmptyManifest
     /\ "version" \in DOMAIN manifest /\ manifest.version = ManifestVersion
     /\ "skills" \in DOMAIN manifest /\ DOMAIN manifest.skills = 1..Len(manifest.skills)

----------------------------------------------------------------------------
(* The overwrite prompt of the install command *)

\* C25: in installCommand, when the fetched skill exists in the target scope,
\* force is not set and the overwrite is confirmed (or yes skips the prompt),
\* the install completes: the document is replaced by the fetched content and
\* the manifest holds the entry of the skill.
ConfirmedOverwriteInstalls ==
  [][ \A req \in InstallRequests, t \in Times :
        LET name == FetchedName(req.content, req.fallback)
            sc == CommandScope(req.global)
        IN ( /\ req.type \in {"github", "registry"} /\ req.loggedIn /\ req.fetchOk
             /\ ~req.force /\ (req.yes \/ req.proceed)
             /\ skillExists(fs, sc, name)
             /\ InstallCommand(req, t) ) =>
             /\ out'.result = "ok"
             /\ fs'[SkillMdPath(getSkillPathAsync(name, sc))] = FileNode(req.content)
             /\ Count(Skills(fs', sc), name) = 1 ]_vars

----------------------------------------------------------------------------
(* skillExists against the conflict check of installSkill *)

\* C26: skillExists and the conflict check of installSkill agree: an installSkill
\* without force of a name for which skillExists is false does not fail with
\* Conflict, also when an install that has not finished has left the directory
\* without its document.
ExistsAgreesWithConflictCheck ==
  [][ \A p \in Pids :
        ( /\ ~procs[p].force
          /\ ~skillExists(fs, scope, procs[p].name)
          /\ CheckExists(p) ) =>
          procs'[p].result # "Conflict" ]_vars

----------------------------------------------------------------------------
(* The scope a manager owns *)

\* the skills directory and the manifest of a scope
InScope(p, sc) == IsPrefix(getSkillsPathAsync(sc), p) \/ p = getLockFilePathAsync(sc)

\* C27: every operation of a manager reads and writes only the skills directory
\* and the manifest of the scope it was constructed with: no call, createSkill
\* with any options included, creates or changes a file of the other scope.
OtherScopeUntouched ==
  [][ \A sc \in Scopes \ {scope} :
        \A p \in DOMAIN fs \cup DOMAIN fs' :
          InScope(p, sc) => (p \in DOMAIN fs /\ p \in DOMAIN fs' /\ fs'[p] = fs[p]) ]_vars

----------------------------------------------------------------------------
(* An uninstall that is interrupted after it has removed the directory *)

\* uninstallSkill up to its second await: the directory is removed, the process
\* ends before removeFromManifest
interruptedUninstall(f, sc, name) ==
  LET skillPath == getSkillPathAsync(name, sc) IN
  IF ~pathExists(f, skillPath) THEN [result |-> "NotFound", fs |-> f]
  ELSE [result |-> "Interrupted", fs |-> RmRecursive(f, skillPath)]

\* procs holds the names whose entry was in the manifest when an uninstallSkill
\* of the name failed with NotFound, and that no installSkill has replaced since
NoneStale == {}

InitStale ==
  /\ fs = [p \in {Cwd} |-> DirNode]
  /\ scope \in Scopes
  /\ out = Outcome("new", NoName, "ok", FALSE)
  /\ installed = {}
  /\ procs = NoneStale
  /\ cmd = NoCommand

Called(op, name, r, stale) ==
  /\ fs' = r.fs
  /\ out' = Outcome(op, name, r.result, HadEntry(name))
  /\ procs' = stale
  /\ UNCHANGED <<scope, installed, cmd>>

Reinstalled(name, r) ==
  Called("installSkill", name, r, IF r.result = "ok" THEN procs \ {name} ELSE procs)

InstallOver(name, force, source, t) ==
  Reinstalled(name, installSkill(fs, scope, name, Doc(name, MinDescription), force, source, t))

CreateAgain(name) ==
  Called("createSkill", name,
         createSkill(fs, [name |-> name, description |-> MinDescription, scope |-> scope]),
         procs)

UninstallInterrupted(name) ==
  Called("interruptedUninstall", name, interruptedUninstall(fs, scope, name), procs)

UninstallAgain(name) ==
  Called("uninstallSkill", name, uninstallSkill(fs, scope, name),
         IF ~pathExists(fs, getSkillPathAsync(name, scope)) /\ HadEntry(name)
         THEN procs \cup {name} ELSE procs)

NextStale ==
  \/ \E name \in SimpleNames, force \in BOOLEAN, source \in Sources, t \in Times :
       InstallOver(name, force, source, t)
  \/ \E name \in SimpleNames : CreateAgain(name)
  \/ \E name \in SimpleNames : UninstallInterrupted(name)
  \/ \E name \in SimpleNames : UninstallAgain(name)

SpecStale == InitStale /\ [][NextStale]_vars

\* the entry of a name in the manifest, as a set
EntryOf(f, sc, name) ==
  {Skills(f, sc)[i] : i \in {j \in 1..Len(Skills(f, sc)) : Skills(f, sc)[j].name = name}}

\* C30, as stated: an uninstallSkill that fails with NotFound leaves the manifest
\* untouched although it holds an entry for the name, and the stale entry stays
\* in the manifest until an installSkill of the name replaces it.
StaleEntryStaysUntilInstall ==
  [][ /\ \A name \in SimpleNames :
           (UninstallAgain(name) /\ ~pathExists(fs, getSkillPathAsync(name, scope))) =>
             (out'.result = "NotFound" /\ fs' = fs)
      /\ \A name \in procs : name \in procs' => EntryOf(fs', scope, name) # {} ]_vars

\* C30, amended: the failed call leaves the manifest untouched and the stale
\* entry in it; the entry then stays as it is until a successful installSkill of
\* the name replaces it or a successful uninstallSkill of the name removes it.
StaleEntryStaysUntilInstallOrUninstall ==
  [][ /\ \A name \in SimpleNames :
           (UninstallAgain(name) /\ ~pathExists(fs, getSkillPathAsync(name, scope))) =>
             (out'.result = "NotFound" /\ fs' = fs)
      /\ \A name \in procs :
           EntryOf(fs', scope, name) # EntryOf(fs, scope, name) =>
             /\ out'.name = name /\ out'.result = "ok"
             /\ out'.op \in {"installSkill", "uninstallSkill"} ]_vars

\* C30 witness: uninstallSkill has failed with NotFound for a name whose
\* directory is gone and whose entry is still in the manifest
FailedUninstallKeptEntry ==
  /\ out.op = "uninstallSkill" /\ out.result = "NotFound"
  /\ out.name \in procs
  /\ ~pathExists(fs, getSkillPathAsync(out.name, scope))
  /\ EntryOf(fs, scope, out.name) # {}

----------------------------------------------------------------------------
(* The same manager with a name that contains '..' *)

\* the name '../outside'
EscapingName == <<"..", "outside">>

EscapeScenarioNames == {<<"alpha">>, EscapingName}

NextEscape ==
  \/ \E options \in CreateOptions(EscapeScenarioNames) : CreateSkill(options)
  \/ \E name \in EscapeScenarioNames, content \in Docs, force \in BOOLEAN,
        source \in Sources, t \in Times :
       InstallSkill(name, content, force, source, t)
  \/ \E name \in EscapeScenarioNames : UninstallSkill(name)

SpecEscape == Init /\ [][NextEscape]_vars

\* p is the skills root of a scope, lies inside it, or is one of the directories
\* that lead to it
AtSkillsRoot(p) ==
  \E sc \in Scopes : IsPrefix(getSkillsPathAsync(sc), p) \/ IsPrefix(p, getSkillsPathAsync(sc))

\* p is the manifest of a scope or one of the directories that lead to it
AtManifest(p) == \E sc \in Scopes : IsPrefix(p, getLockFilePathAsync(sc))

\* C28: for every skill name, names with '/' or '..' segments included,
\* installSkill, createSkill and uninstallSkill create, overwrite and remove
\* only paths inside the skills root (and the manifest they maintain).
WritesStayInsideSkillsRoot ==
  [][ \A p \in DOMAIN fs \cup DOMAIN fs' :
        (p \notin DOMAIN fs \/ p \notin DOMAIN fs' \/ fs'[p] # fs[p]) =>
          (AtSkillsRoot(p) \/ AtManifest(p)) ]_vars

----------------------------------------------------------------------------
(* listSkills entry by entry, with an uninstallSkill running beside it *)

\* a symbolic link whose target is missing: readdir lists it, fs.stat throws
LinkNode == [kind |-> "link"]

\* fs.stat(p) resolves
statOk(f, p) == p \in DOMAIN f /\ f[p].kind # "link"

ListingResult(thrown, skills) == [thrown |-> thrown, skills |-> skills]

\* the body of the for loop of listSkills for one entry of readdir
inspectEntry(f, sc, dir, skills) ==
  LET skillPath == PathJoin(getSkillsPathAsync(sc), <<dir>>) IN
  IF startsWith(dir, ".") THEN ListingResult(FALSE, skills)
  ELSE IF ~statOk(f, skillPath) THEN ListingResult(TRUE, skills)
  ELSE IF IsDirectory(f, skillPath) /\ ParseOk(f, skillPath)
  THEN ListingResult(FALSE, skills \cup {SkillInfoOf(f, skillPath, sc)})
  ELSE ListingResult(FALSE, skills)

\* the names fs.readdir(basePath) returns, in some order
ReaddirNames(f, sc) == {d[Len(d)] : d \in Children(f, getSkillsPathAsync(sc))}

Orders(S) == {order \in [1..Cardinality(S) -> S] : \A i, j \in DOMAIN order :
                                                     order[i] = order[j] => i = j}

\* procs is the one listing: where it is, the entries still to inspect, the
\* skills collected, and whether an uninstall ran while it was looping
IdleListing == [pc |-> "idle", dirs |-> <<>>, skills |-> {}, disturbed |-> FALSE]

\* what a skills root holds before the listing starts
AlphaEntries ==
  {<<>>, <<"dir">>, <<"dir", Doc(<<"alpha">>, MinDescription)>>,
   <<"dir", Doc(<<"alpha">>, MinDescription - 1)>>}
BetaEntries == {<<>>, <<"dir", Doc(<<"beta">>, MinDescription)>>}
HiddenEntries == {<<>>, <<"dir", Doc(<<"alpha">>, MinDescription)>>}
LinkEntries == {<<>>, <<"link">>}

\* the entry e put under the skills root as dir
WithEntry(f, sc, dir, e) ==
  LET skillPath == PathJoin(getSkillsPathAsync(sc), <<dir>>) IN
  IF e = <<>> THEN f
  ELSE IF e[1] = "link"
  THEN [q \in DOMAIN ensureDir(f, getSkillsPathAsync(sc)) \cup {skillPath} |->
          IF q = skillPath THEN LinkNode ELSE ensureDir(f, getSkillsPathAsync(sc))[q]]
  ELSE IF Len(e) = 1 THEN ensureDir(f, skillPath)
  ELSE WriteFile(ensureDir(f, skillPath), SkillMdPath(skillPath), e[2])

InitList ==
  /\ scope \in Scopes
  /\ \E a \in AlphaEntries, b \in BetaEntries, h \in HiddenEntries, l \in LinkEntries :
       fs = WithEntry(WithEntry(WithEntry(WithEntry([p \in {Cwd} |-> DirNode],
                                                    scope, "alpha", a),
                                          scope, "beta", b),
                                scope, ".git", h),
                      scope, "linked", l)
  /\ out = Outcome("new", NoName, "ok", FALSE)
  /\ installed = {}
  /\ procs = IdleListing
  /\ cmd = NoCommand

\* const dirs = await fs.readdir(basePath); a failure ends the listing
Readdir(order) ==
  /\ procs.pc = "idle"
  /\ procs' = IF IsDirectory(fs, getSkillsPathAsync(scope))
              THEN [procs EXCEPT !.pc = "loop", !.dirs = order]
              ELSE [procs EXCEPT !.pc = "done"]
  /\ UNCHANGED <<fs, scope, out, installed, cmd>>

Inspected(r) ==
  /\ procs' = [procs EXCEPT !.pc = IF r.thrown \/ Len(procs.dirs) = 1 THEN "done" ELSE "loop",
                            !.dirs = Tail(procs.dirs),
                            !.skills = r.skills]
  /\ UNCHANGED <<fs, scope, out, installed, cmd>>

\* one turn of the loop: stat and parse of the next entry
InspectNext ==
  /\ procs.pc = "loop"
  /\ IF procs.dirs = <<>>
     THEN procs' = [procs EXCEPT !.pc = "done"] /\ UNCHANGED <<fs, scope, out, installed, cmd>>
     ELSE Inspected(inspectEntry(fs, scope, Head(procs.dirs), procs.skills))

\* uninstallSkill(name) by another invocation
UninstallBeside(name) ==
  /\ procs.pc # "done"
  /\ fs' = uninstallSkill(fs, scope, <<name>>).fs
  /\ fs' # fs
  /\ procs' = [procs EXCEPT !.disturbed = @ \/ procs.pc = "loop"]
  /\ UNCHANGED <<scope, out, installed, cmd>>

NextList ==
  \/ \E order \in Orders(ReaddirNames(fs, scope)) : Readdir(order)
  \/ InspectNext
  \/ \E name \in {"alpha", "beta"} : UninstallBeside(name)

SpecList == InitList /\ [][NextList]_vars

\* the skills the listing is to return: the immediate subdirectories of the
\* skills root, not dot-prefixed, whose document parses and validates
ValidSkills(f, sc) ==
  LET basePath == getSkillsPathAsync(sc) IN
  {SkillInfoOf(f, d, sc) :
     d \in {q \in Children(f, basePath) :
              ~startsWith(q[Len(q)], ".") /\ IsDirectory(f, q) /\ ParseOk(f, q)}}

\* C21: listSkills never fails and returns exactly the valid skills of the
\* skills root: an entry without document, with an invalid header or one that
\* cannot be inspected is left out without any effect on the other entries
\* (here: a listing that no uninstall ran beside).
ListingReturnsValidSkills ==
  (procs.pc = "done" /\ ~procs.disturbed) => procs.skills = ValidSkills(fs, scope)

\* C29: a listing that runs beside an uninstallSkill still returns every valid
\* skill that was there throughout; only the removed skill may be missing.
\* (Stated for a skills root without dangling links, where the directory that
\* uninstallSkill removes is the only entry that can fail to be inspected.)
ListingKeepsOtherSkills ==
  (procs.pc = "done" /\ \A p \in DOMAIN fs : fs[p] # LinkNode) =>
    ValidSkills(fs, scope) \subseteq procs.skills

----------------------------------------------------------------------------
(* SKILL.md as text: the lines of the content, content.split('\n') *)

\* header values as js-yaml and the schema type them
Str(s) == [t |-> "str", v |-> s]
Bool(b) == [t |-> "bool", v |-> b]
List(items) == [t |-> "list", v |-> items]
Num(digits) == [t |-> "num", v |-> digits]

Digits == "0123456789"
NameChars == LowerLetters \o Digits \o "-"

AllIn(s, chars) == \A i \in 1..Len(s) : includes(chars, CharAt(s, i))

\* s.trim(), for spaces
RECURSIVE trim(_)
trim(s) ==
  IF startsWith(s, " ") THEN trim(slice(s, 1))
  ELSE IF endsWith(s, " ") THEN trim(SubSeq(s, 1, Len(s) - 1))
  ELSE s

TrimAll(parts) == [i \in 1..Len(parts) |-> trim(parts[i])]

Quoted(text) == Len(text) >= 2 /\ startsWith(text, "\"") /\ endsWith(text, "\"")
Bracketed(text) == Len(text) >= 2 /\ startsWith(text, "[") /\ endsWith(text, "]")
Inner(text) == SubSeq(text, 2, Len(text) - 1)

\* the value of a header line as js-yaml reads it: boolean, flow sequence of
\* plain words, double-quoted string, integer, else plain string
yamlValue(text) ==
  IF text = "true" THEN Bool(TRUE)
  ELSE IF text = "false" THEN Bool(FALSE)
  ELSE IF Bracketed(text)
  THEN List(IF trim(Inner(text)) = "" THEN <<>> ELSE TrimAll(split(Inner(text), ",")))
  ELSE IF Quoted(text) THEN Str(Inner(text))
  ELSE IF text # "" /\ AllIn(text, Digits) THEN Num(text)
  ELSE Str(text)

KeyOf(line) == SubSeq(line, 1, IndexOf(line, ":") - 1)
ValueOf(line) == trim(slice(line, IndexOf(line, ":")))

\* a line js-yaml accepts as an entry of the mapping: key, ':', and a value
\* that is quoted, a flow sequence, or a plain scalar without ': '
yamlLineOk(line) ==
  /\ IndexOf(line, ":") > 1
  /\ Quoted(ValueOf(line)) \/ Bracketed(ValueOf(line)) \/ ~includes(ValueOf(line), ": ")

NoData == <<>>

\* yaml.load of the header block: [ok, data]; a duplicated key is an error
yamlLoad(lines) ==
  IF \A i \in 1..Len(lines) : yamlLineOk(lines[i]) /\
                               \A j \in 1..Len(lines) : KeyOf(lines[j]) = KeyOf(lines[i]) => j = i
  THEN [ok |-> TRUE,
        data |-> [k \in {KeyOf(lines[i]) : i \in 1..Len(lines)} |->
                    yamlValue(ValueOf(lines[CHOOSE i \in 1..Len(lines) : KeyOf(lines[i]) = k]))]]
  ELSE [ok |-> FALSE, data |-> NoData]

\* index of the line that closes the header block, 0 when there is none
ClosingLine(content) ==
  IF \E i \in 2..Len(content) : content[i] = "---"
  THEN CHOOSE i \in 2..Len(content) : content[i] = "---" /\ \A j \in 2..(i - 1) : content[j] # "---"
  ELSE 0

Mattered(loaded, body) == [ok |-> loaded.ok, data |-> loaded.data, content |-> body]

\* matter(content): the header block between the '---' lines, and the rest
matter(content) ==
  IF content = <<>> \/ content[1] # "---" THEN Mattered([ok |-> TRUE, data |-> NoData], content)
  ELSE IF ClosingLine(content) = 0
  THEN Mattered(yamlLoad(SubSeq(content, 2, Len(content))), <<>>)
  ELSE Mattered(yamlLoad(SubSeq(content, 2, ClosingLine(content) - 1)),
                SubSeq(content, ClosingLine(content) + 1, Len(content)))

SchemaFields ==
  {"name", "description", "version", "disable-model-invocation", "user-invocable",
   "allowed-tools", "argument-hint", "model", "context", "agent", "license", "author",
   "keywords", "repository"}

\* /^\d+\.\d+\.\d+$/
SemverOk(v) ==
  /\ Len(split(v, ".")) = 3
  /\ \A i \in 1..3 : split(v, ".")[i] # "" /\ AllIn(split(v, ".")[i], Digits)

\* the check SkillFrontmatterSchema makes on the field k of data
FieldOk(data, k) ==
  IF k = "name" THEN data[k].t = "str" /\ Len(data[k].v) >= 1 /\ AllIn(data[k].v, NameChars)
  ELSE IF k = "description" THEN data[k].t = "str" /\ Len(data[k].v) >= MinDescription
  ELSE IF k = "version" THEN data[k].t = "str" /\ SemverOk(data[k].v)
  ELSE IF k \in {"disable-model-invocation", "user-invocable"} THEN data[k].t = "bool"
  ELSE IF k = "allowed-tools" THEN data[k].t \in {"str", "list"}
  ELSE IF k = "context" THEN data[k].t = "str" /\ data[k].v \in {"normal", "fork"}
  ELSE IF k = "keywords" THEN data[k].t = "list"
  ELSE data[k].t = "str"

FrontmatterOk(data) ==
  /\ {"name", "description"} \subseteq DOMAIN data
  /\ \A k \in DOMAIN data \cap SchemaFields : FieldOk(data, k)

\* SkillFrontmatterSchema.parse(data) where it succeeds: unknown keys dropped,
\* the two defaults filled in, allowed-tools given as a string split
SkillFrontmatterSchema(data) ==
  [k \in (DOMAIN data \cap SchemaFields) \cup {"disable-model-invocation", "user-invocable"} |->
     IF k \notin DOMAIN data THEN Bool(k = "user-invocable")
     ELSE IF k = "allowed-tools" /\ data[k].t = "str" THEN List(TrimAll(split(data[k].v, ",")))
     ELSE data[k]]

\* text.trim() on lines: the empty lines at both ends go
RECURSIVE TrimLines(_)
TrimLines(lines) ==
  IF lines = <<>> THEN lines
  ELSE IF trim(Head(lines)) = "" THEN TrimLines(Tail(lines))
  ELSE IF trim(lines[Len(lines)]) = "" THEN TrimLines(SubSeq(lines, 1, Len(lines) - 1))
  ELSE lines

NotParsed == [ok |-> FALSE]

Validated(m) ==
  IF ~m.ok THEN NotParsed
  ELSE IF ~FrontmatterOk(m.data) THEN NotParsed
  ELSE [ok |-> TRUE, header |-> SkillFrontmatterSchema(m.data), body |-> TrimLines(m.content)]

\* SkillParser.parse on the content of SKILL.md: [ok, header, body]
parseContent(content) == Validated(matter(content))

HeaderLine(key, text) == <<key \o ": " \o text>>

\* the yamlLines that generateSkillMd pushes for the field k
FieldLines(frontmatter, k) ==
  IF k \notin DOMAIN frontmatter THEN <<>>
  ELSE IF k \in {"disable-model-invocation", "user-invocable"}
  THEN HeaderLine(k, IF frontmatter[k].v THEN "true" ELSE "false")
  ELSE IF k = "allowed-tools"
  THEN IF Len(frontmatter[k].v) = 0 THEN <<>>
       ELSE HeaderLine(k, IF frontmatter[k].t = "list" THEN join(frontmatter[k].v, ", ")
                          ELSE frontmatter[k].v)
  ELSE IF frontmatter[k].v = "" THEN <<>>
  ELSE HeaderLine(k, frontmatter[k].v)

\* the fields generateSkillMd writes, in its order
GeneratedFields ==
  <<"name", "description", "version", "disable-model-invocation", "user-invocable",
    "allowed-tools", "argument-hint", "model", "context", "agent">>

RECURSIVE yamlLines(_, _)
yamlLines(frontmatter, fields) ==
  IF fields = <<>> THEN <<>>
  ELSE FieldLines(frontmatter, Head(fields)) \o yamlLines(frontmatter, Tail(fields))

\* generateSkillMd(frontmatter, body), the text as lines
generateSkillMdText(frontmatter, body) ==
  <<"---">> \o yamlLines(frontmatter, GeneratedFields) \o <<"---", "">> \o body \o <<"">>


\* the frontmatter createSkill builds from its options
OptionOf ==
  [version |-> "version", disableModelInvocation |-> "disable-model-invocation",
   userInvocable |-> "user-invocable", allowedTools |-> "allowed-tools",
   argumentHint |-> "argument-hint", model |-> "model", context |-> "context",
   agent |-> "agent"]

\* the condition under which createSkill copies the option o
OptionSet(options, o) ==
  /\ o \in DOMAIN options
  /\ o \notin {"disableModelInvocation", "userInvocable"} => Len(options[o].v) > 0

createFrontmatter(options) ==
  [k \in {"name", "description", "version"} \cup
         {OptionOf[o] : o \in {q \in DOMAIN OptionOf : OptionSet(options, q)}} |->
     IF k \in {"name", "description"} THEN options[k]
     ELSE IF k = "version"
     THEN IF OptionSet(options, "version") THEN options.version ELSE Str("1.0.0")
     ELSE options[CHOOSE o \in DOMAIN OptionOf : OptionOf[o] = k]]

\* options.content || `# ${options.name}\n\nYour skill instructions here...\n`
createBody(options) ==
  IF "content" \in DOMAIN options /\ options.content # <<>> THEN options.content
  ELSE <<"# " \o options.name.v, "", "Your skill instructions here...", "">>

\* the text createSkill writes to SKILL.md
createSkillText(options) == generateSkillMdText(createFrontmatter(options), createBody(options))

\* content.match(/^name:\s*(.+)$/m): the lines from the first that starts with
\* 'name:' and has text after it, on the line or (as \s spans line ends) below it
RECURSIVE nameMatch(_)
nameMatch(content) ==
  IF content = <<>> THEN Undefined
  ELSE IF startsWith(Head(content), "name:") /\
          \E i \in 1..Len(content) :
            trim(IF i = 1 THEN slice(content[1], 5) ELSE content[i]) # ""
  THEN LET rest == <<slice(content[1], 5)>> \o Tail(content)
       IN trim(rest[CHOOSE i \in 1..Len(rest) :
                      trim(rest[i]) # "" /\ \A j \in 1..(i - 1) : trim(rest[j]) = ""])
  ELSE nameMatch(Tail(content))

\* const name = nameMatch ? nameMatch[1].trim() : repo
nameOfContent(content, repo) ==
  IF nameMatch(content) # Undefined THEN nameMatch(content) ELSE repo

----------------------------------------------------------------------------
(* Documents parsed, generated and parsed again; documents fetched and created *)

\* the header lines a document may have, field by field
NameLines == {<<>>, <<"name: alpha">>}
DescriptionLines ==
  {<<"description: a long description">>, <<"description: \"quoted words here\"">>}
VersionLines == {<<>>, <<"version: 1.2.0">>}
InvocationLines == {<<>>, <<"disable-model-invocation: true">>}
InvocableLines == {<<>>, <<"user-invocable: false">>}
ToolLines == {<<>>, <<"allowed-tools: Read, Grep">>, <<"allowed-tools: [Read, Grep]">>}
HintLines == {<<>>, <<"argument-hint: <file>">>}
RunLines == {<<>>, <<"model: opus", "context: fork", "agent: reviewer">>}
LicenseLines == {<<>>, <<"license: MIT">>}
PackageLines == {<<>>, <<"repository: acme/kit", "author: acme", "keywords: [lint, tools]">>}

\* bodies, one with a line that starts with 'name:'
Bodies == {<<"", "# Alpha", "", "Do the work.", "">>, <<"", "Steps", "name: other", "">>}

SkillTexts ==
  {<<"---">> \o n \o d \o v \o i \o u \o a \o h \o r \o l \o k \o <<"---">> \o b :
     n \in NameLines, d \in DescriptionLines, v \in VersionLines, i \in InvocationLines,
     u \in InvocableLines, a \in ToolLines, h \in HintLines, r \in RunLines,
     l \in LicenseLines, k \in PackageLines, b \in Bodies}

\* what createSkill may be called with
AllOptions ==
  [name |-> Str("alpha"), description |-> Str("a long description"),
   version |-> Str("2.0.0"), userInvocable |-> Bool(FALSE),
   allowedTools |-> List(<<"Read">>), model |-> Str("opus")]

TextCreateOptions ==
  {[o \in {"name", "description"} \cup chosen |-> AllOptions[o]] :
     chosen \in SUBSET {"version", "userInvocable", "allowedTools", "model"}}

\* procs is the one document in work
IdleDoc ==
  [pc |-> "idle", content |-> <<>>, options |-> NoData, parsed |-> NotParsed,
   generated |-> <<>>, reparsed |-> NotParsed, name |-> "", repo |-> ""]

InitDoc ==
  /\ fs = [p \in {Cwd} |-> DirNode]
  /\ scope = "project"
  /\ out = Outcome("new", NoName, "ok", FALSE)
  /\ installed = {}
  /\ procs = IdleDoc
  /\ cmd = NoCommand

DocStep(next) == procs' = next /\ UNCHANGED <<fs, scope, out, installed, cmd>>

\* the content of a SKILL.md is read
ReadDoc(content) ==
  procs.pc = "idle" /\ DocStep([procs EXCEPT !.pc = "read", !.content = content])

\* parser.parse()
ParseDoc ==
  procs.pc = "read" /\
  DocStep([procs EXCEPT !.pc = "parsed", !.parsed = parseContent(procs.content)])

\* generateSkillMd(skill, skill.content) on what was parsed
GenerateDoc ==
  procs.pc = "parsed" /\ procs.parsed.ok /\
  DocStep([procs EXCEPT !.pc = "generated",
                        !.generated = generateSkillMdText(procs.parsed.header,
                                                          procs.parsed.body)])

ReparseDoc ==
  procs.pc = "generated" /\
  DocStep([procs EXCEPT !.pc = "reparsed", !.reparsed = parseContent(procs.generated)])

\* fetchFromGitHub has the content: the name it returns
FetchDoc(repo) ==
  procs.pc = "read" /\
  DocStep([procs EXCEPT !.pc = "fetched", !.repo = repo,
                        !.name = nameOfContent(procs.content, repo)])

\* createSkill(options): the text it writes
CreateDoc(options) ==
  procs.pc = "idle" /\
  DocStep([procs EXCEPT !.pc = "created", !.options = options,
                        !.generated = createSkillText(options)])

NextDoc ==
  \/ \E content \in SkillTexts : ReadDoc(content)
  \/ ParseDoc
  \/ GenerateDoc
  \/ ReparseDoc
  \/ FetchDoc("kit")
  \/ \E options \in TextCreateOptions : CreateDoc(options)

SpecDoc == InitDoc /\ [][NextDoc]_vars

\* the keys of the header block of a text
HeaderKeys(content) ==
  IF content = <<>> \/ content[1] # "---" THEN {}
  ELSE {KeyOf(content[i]) : i \in 2..(ClosingLine(content) - 1)}

OptionalFields == SchemaFields \ {"name", "description"}

SameValue(a, b) == a.t = b.t /\ a.v = b.v

\* C22: for every document that parses, parsing the text generated from the
\* parsed header and body yields the same value for every schema field the
\* parsed header defines, and the same body.
RoundTripPreservesHeader ==
  procs.pc = "reparsed" =>
    /\ procs.reparsed.ok
    /\ \A k \in SchemaFields \cap DOMAIN procs.parsed.header :
         /\ k \in DOMAIN procs.reparsed.header
         /\ SameValue(procs.reparsed.header[k], procs.parsed.header[k])
    /\ procs.reparsed.body = procs.parsed.body

\* C23: the generated text has a header line only for the fields that were
\* given: an optional field absent from the original document is absent from
\* the text generated from its parse, and createSkill writes no line for an
\* optional field its caller left unset.
OnlyGivenFieldsWritten ==
  /\ procs.pc \in {"generated", "reparsed"} =>
       \A k \in OptionalFields :
         k \notin HeaderKeys(procs.content) => k \notin HeaderKeys(procs.generated)
  /\ procs.pc = "created" =>
       \A o \in DOMAIN OptionOf :
         o \notin DOMAIN procs.options => OptionOf[o] \notin HeaderKeys(procs.generated)

\* C24: fetchFromGitHub returns as name the value of the name line of the
\* header when the header has one, and the repo otherwise; a name line in the
\* body alone does not determine the name.
FetchedNameFromHeader ==
  procs.pc = "fetched" =>
    procs.name = IF "name" \in HeaderKeys(procs.content)
                 THEN ValueOf(procs.content[CHOOSE i \in 2..(ClosingLine(procs.content) - 1) :
                                               KeyOf(procs.content[i]) = "name"])
                 ELSE procs.repo

====
